---------------------------- MODULE Spec2Model ----------------------------
(***************************************************************************)
(* Model of the tile-to-heightfield pipeline of the 3D terrain map         *)
(* generator: Terrain-RGB decoding (lib/terrainFilters.ts, lib/tileUtils,  *)
(* the heatmap generator of components/MapCanvas.tsx), the artifact        *)
(* filters (lib/terrainFilters.ts), the tile geometry and the bounding box *)
(* parser (lib/tileUtils), the tile stitcher (lib/tileStitcher.ts) and the *)
(* displacement of the terrain mesh (TerrainMesh, components/MapCanvas).   *)
(* The last part models the page (app/page.tsx) with its map component     *)
(* (MapCanvas, CityscapeMap): the Generate handlers, the overlapping tile  *)
(* loads they start and the effects that run after every commit.           *)
(*                                                                         *)
(* Heights are exact fixed-point numbers counted in ticks of 0.005 m, so   *)
(* that the decoder's 0.1 m step, the halving of calculateMedian and the   *)
(* Hampel epsilon of 0.01 m are all integers.  Binary floating-point       *)
(* rounding (Float32Array storage, 0.1 not being a binary fraction) is not *)
(* modelled.                                                               *)
(***************************************************************************)
EXTENDS Integers, Sequences, FiniteSets, TLC

VARIABLES
    pixel,            \* <<r, g, b>>: the Terrain-RGB pixel handed to the decoders
    decodedBy,        \* the decoders that have run on pixel
    hFilters,         \* result of terrainFilters.terrainRGBToHeight
    hTileUtils,       \* result of tileUtils.terrainRGBToHeight
    hHeatmap,         \* elevation computed inside generateHeatmapTexture
    terrainImageData, \* [width, height, data]: the cropped Terrain-RGB raster
    filterMethod,     \* 'none' | 'capping' | 'median'
    heightField,      \* Float32Array returned by applyTerrainFilter
    filtered,         \* TRUE once heightField holds the result for the inputs
    bbox,             \* the BoundingBox, its corners in grid coordinates
    maxTiles,         \* the tile budget handed to calculateZoomLevel
    zoom,             \* the zoom returned by calculateZoomLevel
    zoomKnown,        \* TRUE once zoom holds the result for bbox and maxTiles
    zoomArg,          \* the zoom handed to getTilesForBoundingBox
    tiles,            \* the TileCoord[] returned by getTilesForBoundingBox
    tilesCall,        \* "idle", "returned", or "diverged" (the loops never end)
    tileRequests,     \* tile fetches issued by the last loadTiles
    style,            \* the raster style handed to stitchTiles
    stitchPc,         \* "idle", "awaiting" (Promise.all), "resolved", "rejected"
    taskPc,           \* per tile task: "fetch", "blob", "bitmap" or "settled"
    taskResult,       \* per tile task: "pending", "drawn" or "placeholder"
    fetchIssued,      \* the tile tasks whose fetch(url) has been called
    canvas,           \* [created, width, height] of the composite canvas
    composite,        \* the composite's cells: what each 512 x 512 cell holds
    croppedCanvas,    \* [width, height] of the canvas stitchTiles returns
    loadOutcome,      \* loadTiles after the stitch: "none", "rendered", "error"
    meshResolution,   \* segments of the plane geometry along each axis
    useRealScale,     \* the scale mode handed to TerrainMesh
    heightExaggeration,       \* the exaggeration factor, in tenths
    horizontalDistanceMeters, \* the width of the box on the ground, in metres
    elevationStats,   \* [min, max] of the filtered heights, in ticks
    baseScale,        \* [num, den]: scene units per tick of elevation
    elevationMeters,  \* per vertex: the sampled height times segments^2
    positions,        \* per vertex: the z written, a fraction [num, den]
    effectDeps,       \* the dependencies the displacement effect last ran with
    gbaCall,          \* the last call of sampleElevationFromGBA, with its result
    bboxInput,        \* the text of the bounding box field, character by character
    parsed,           \* what parseBoundingBox returned for bboxInput
    error,            \* the page's validation message, or Null
    viewMode,         \* 'r3f' (MapCanvas) or 'cityscape' (CityscapeMap)
    loading,          \* the page's flag, set through onLoadingChange
    token,            \* NEXT_PUBLIC_MAPBOX_TOKEN, '' when it is not set
    mount,            \* how many map components have been mounted so far
    loads,            \* the calls of loadTiles so far, each with its closure
    satelliteTexture, \* map state: the stitch result it wraps
    streetsTexture,   \* map state: the stitch result it wraps
    heatmapTexture,   \* map state: what the heatmap was generated from
    minElevation,     \* map state, in ticks
    maxElevation,     \* map state, in ticks
    textureWidth,     \* map state: width of the satellite canvas
    textureHeight,    \* map state: height of the satellite canvas
    geometry,         \* the PlaneGeometry of TerrainMesh, Null when unmounted
    exportFunctions   \* the page's export functions, Null until registered

decodeVars == <<pixel, decodedBy, hFilters, hTileUtils, hHeatmap>>
filterVars == <<terrainImageData, filterMethod, heightField, filtered>>
tileVars == <<bbox, maxTiles, zoom, zoomKnown, zoomArg, tiles, tilesCall,
              tileRequests>>
stitchVars == <<style, stitchPc, taskPc, taskResult, fetchIssued, canvas,
                composite, croppedCanvas, loadOutcome>>
meshVars == <<meshResolution, useRealScale, heightExaggeration,
              horizontalDistanceMeters, elevationStats, baseScale,
              elevationMeters, positions, effectDeps, gbaCall>>
parseVars == <<bboxInput, parsed>>
appVars == <<error, viewMode, loading, token, mount, loads, satelliteTexture,
             streetsTexture, heatmapTexture, minElevation, maxElevation,
             textureWidth, textureHeight, geometry, exportFunctions>>
vars == <<decodeVars, filterVars, tileVars, stitchVars, meshVars, parseVars,
          appVars>>

---------------------------------------------------------------------------
(* Units *)

\* ticks per encoded Terrain-RGB step of 0.1 m (one tick is 0.005 m)
DM == 20

Metres(m) == m * 10 * DM

Min(a, b) == IF a <= b THEN a ELSE b
Max(a, b) == IF a >= b THEN a ELSE b
Abs(a) == IF a < 0 THEN -a ELSE a

\* Math.min and Math.max over a non-empty collection
SetMin(S) == CHOOSE m \in S : \A v \in S : m <= v
SetMax(S) == CHOOSE m \in S : \A v \in S : v <= m

---------------------------------------------------------------------------
(* Elevation decoder *)

MAX_SPIKE_HEIGHT == 3500
ABSOLUTE_MAX_HEIGHT == 8000
HAMPEL_THRESHOLD_MULTIPLIER == 3

\* mutant: the decoder with the green channel weighted like the blue one
terrainRGBToHeight_green(r, g, b) ==
    Min(Metres(-10000) + ((r * 256 * 256 + g + b) * DM),
        Metres(ABSOLUTE_MAX_HEIGHT))

\* terrainFilters.ts: decode and cap at ABSOLUTE_MAX_HEIGHT
terrainRGBToHeight(r, g, b) ==
    LET height == Metres(-10000) + ((r * 256 * 256 + g * 256 + b) * DM)
    IN  Min(height, Metres(ABSOLUTE_MAX_HEIGHT))

\* tileUtils: the exported decoder, used by createHeightmapFromTerrainRGB
tileUtils_terrainRGBToHeight(r, g, b) ==
    Metres(-10000) + ((r * 256 * 256 + g * 256 + b) * DM)

\* MapCanvas.tsx generateHeatmapTexture: the inline decode of each pixel
heatmapElevation(r, g, b) ==
    Metres(-10000) + ((r * 256 * 256 + g * 256 + b) * DM)


---------------------------------------------------------------------------
(* Decoder specification: one pixel is drawn, each decoder is applied *)

\* channel values around the 8000 m boundary (R=2, G=191, B=32 decodes to
\* exactly 8000.0 m), around 100.0 m (1, 138, 136) and at the range's ends
SampleR == {0, 1, 2, 3, 255}
SampleG == {0, 138, 191, 192, 255}
SampleB == {0, 31, 32, 33, 136, 255}
SamplePixels == SampleR \X SampleG \X SampleB

\* the 24-bit value packed in a pixel
Packed(p) == p[1] * 65536 + p[2] * 256 + p[3]

FilterIdle ==
    /\ terrainImageData = [width |-> 0, height |-> 0, data |-> <<>>]
    /\ filterMethod = "none"
    /\ heightField = <<>>
    /\ filtered = FALSE

TilesIdle ==
    /\ bbox = [minLon |-> 0, minLat |-> 0, maxLon |-> 0, maxLat |-> 0]
    /\ maxTiles = 16
    /\ zoom = 10
    /\ zoomKnown = FALSE
    /\ zoomArg = 0
    /\ tiles = <<>>
    /\ tilesCall = "idle"
    /\ tileRequests = 0

StitchIdle ==
    /\ style = "satellite"
    /\ stitchPc = "idle"
    /\ taskPc = <<>>
    /\ taskResult = <<>>
    /\ fetchIssued = {}
    /\ canvas = [created |-> FALSE, width |-> 0, height |-> 0]
    /\ composite = <<>>
    /\ croppedCanvas = [width |-> 0, height |-> 0]
    /\ loadOutcome = "none"

\* the page's defaults before any raster was displaced (a 1 km wide box)
MeshIdle ==
    /\ meshResolution = 1
    /\ useRealScale = TRUE
    /\ heightExaggeration = 10
    /\ horizontalDistanceMeters = 1000
    /\ elevationStats = [min |-> 0, max |-> 0]
    /\ baseScale = [num |-> 0, den |-> 1]
    /\ elevationMeters = <<>>
    /\ positions = <<>>
    /\ effectDeps = <<>>
    /\ gbaCall = <<>>

\* no text has been parsed
ParseIdle ==
    /\ bboxInput = <<>>
    /\ parsed = [result |-> "pending"]

\* JavaScript null
Null == [result |-> "null"]

\* a texture state that holds no texture
NoTexture == [load |-> 0, style |-> "none", width |-> 0, height |-> 0]

\* the page as constructed and no map component mounted
AppIdle ==
    /\ error = Null
    /\ viewMode = "r3f"
    /\ loading = FALSE
    /\ token = ""
    /\ mount = 0
    /\ loads = <<>>
    /\ satelliteTexture = NoTexture
    /\ streetsTexture = NoTexture
    /\ heatmapTexture = NoTexture
    /\ minElevation = 0
    /\ maxElevation = 0
    /\ textureWidth = 0
    /\ textureHeight = 0
    /\ geometry = Null
    /\ exportFunctions = Null

InitDecode ==
    /\ AppIdle
    /\ TilesIdle
    /\ StitchIdle
    /\ MeshIdle
    /\ ParseIdle
    /\ pixel \in SamplePixels
    /\ decodedBy = {}
    /\ hFilters = 0
    /\ hTileUtils = 0
    /\ hHeatmap = 0
    /\ FilterIdle

\* applyNoFilter / applyCappingFilter / applyHampelFilter decode a pixel
DecodeFilters ==
    /\ "filters" \notin decodedBy
    /\ hFilters' = terrainRGBToHeight(pixel[1], pixel[2], pixel[3])
    /\ decodedBy' = decodedBy \cup {"filters"}
    /\ UNCHANGED <<appVars, parseVars, meshVars, stitchVars, pixel, hTileUtils, hHeatmap, filterVars, tileVars>>

\* createHeightmapFromTerrainRGB decodes a pixel
DecodeTileUtils ==
    /\ "tileUtils" \notin decodedBy
    /\ hTileUtils' = tileUtils_terrainRGBToHeight(pixel[1], pixel[2], pixel[3])
    /\ decodedBy' = decodedBy \cup {"tileUtils"}
    /\ UNCHANGED <<appVars, parseVars, meshVars, stitchVars, pixel, hFilters, hHeatmap, filterVars, tileVars>>

\* generateHeatmapTexture decodes a pixel
DecodeHeatmap ==
    /\ "heatmap" \notin decodedBy
    /\ hHeatmap' = heatmapElevation(pixel[1], pixel[2], pixel[3])
    /\ decodedBy' = decodedBy \cup {"heatmap"}
    /\ UNCHANGED <<appVars, parseVars, meshVars, stitchVars, pixel, hFilters, hTileUtils, filterVars, tileVars>>

NextDecode == DecodeFilters \/ DecodeTileUtils \/ DecodeHeatmap

SpecDecode == InitDecode /\ [][NextDecode]_vars

\* the provider's formula in decimetres: -100000 + v for the 24-bit value v
FormulaDm(p) == Packed(p) - 100000

\* C1: a pixel whose formula value is at most 8000 m decodes to exactly
\* -10000 + v * 0.1 metres (-100000 + v decimetres), in the filter module and
\* in tileUtils, and the decoded height never decreases when v grows
C1_DecodeFormulaMonotone ==
    /\ ("filters" \in decodedBy /\ FormulaDm(pixel) <= 80000)
          => hFilters = FormulaDm(pixel) * DM
    /\ ("tileUtils" \in decodedBy /\ FormulaDm(pixel) <= 80000)
          => hTileUtils = FormulaDm(pixel) * DM
    /\ "filters" \in decodedBy =>
          \A q \in SamplePixels :
              /\ Packed(pixel) <= Packed(q) =>
                     hFilters <= terrainRGBToHeight(q[1], q[2], q[3])
              /\ Packed(q) <= Packed(pixel) =>
                     terrainRGBToHeight(q[1], q[2], q[3]) <= hFilters

C1_Witness ==
    /\ decodedBy = {"filters", "tileUtils", "heatmap"}
    /\ pixel = <<1, 138, 136>>
    /\ hFilters = Metres(100)

\* C2: every decoder of the pipeline returns exactly 8000 m for a pixel whose
\* formula value exceeds 8000 m, and the formula value otherwise
C2_ClampEverywhere ==
    LET expected == IF FormulaDm(pixel) > 80000 THEN Metres(8000)
                    ELSE FormulaDm(pixel) * DM
    IN  /\ "filters" \in decodedBy => hFilters = expected
        /\ "tileUtils" \in decodedBy => hTileUtils = expected
        /\ "heatmap" \in decodedBy => hHeatmap = expected

---------------------------------------------------------------------------
(* Artifact filters (lib/terrainFilters.ts) *)

FilterMethods == {"none", "capping", "median"}

\* the pixel indices of a width x height raster
Pixels(width, height) == 0 .. (width * height - 1)

\* mutant: the capping filter without the secondary ceiling
applyCappingFilter_noceiling(imageData, width, height) ==
    LET data == imageData.data
    IN  [i \in Pixels(width, height) |->
            terrainRGBToHeight(data[i * 4], data[i * 4 + 1], data[i * 4 + 2])]

applyCappingFilter(imageData, width, height) ==
    LET data == imageData.data
    IN  [i \in Pixels(width, height) |->
            LET idx == i * 4
                r == data[idx]
                g == data[idx + 1]
                b == data[idx + 2]
                elevation == terrainRGBToHeight(r, g, b)
            IN  Min(elevation, Metres(MAX_SPIKE_HEIGHT))]

\* [...values].sort((a, b) => a - b)
RECURSIVE InsertSorted(_, _)
InsertSorted(sorted, v) ==
    IF sorted = <<>> THEN <<v>>
    ELSE IF v <= Head(sorted) THEN <<v>> \o sorted
    ELSE <<Head(sorted)>> \o InsertSorted(Tail(sorted), v)

RECURSIVE SortAscending(_)
SortAscending(values) ==
    IF values = <<>> THEN <<>>
    ELSE InsertSorted(SortAscending(Tail(values)), Head(values))

\* sorted[k] of the code is sorted[k + 1] here; the sums halved are even
calculateMedian(values) ==
    LET sorted == SortAscending(values)
        mid == Len(sorted) \div 2
    IN  IF Len(sorted) % 2 = 0
        THEN (sorted[mid] + sorted[mid + 1]) \div 2
        ELSE sorted[mid + 1]

\* the offsets <<dx, dy>> in the order of the two loops: dy outer, dx inner
KernelOffsets(radius) ==
    LET side == 2 * radius + 1
    IN  [k \in 1 .. side * side |->
            <<((k - 1) % side) - radius, ((k - 1) \div side) - radius>>]

KernelHeights(heights, width, height, x, y, radius) ==
    LET inBounds(o) == /\ x + o[1] >= 0 /\ x + o[1] < width
                       /\ y + o[2] >= 0 /\ y + o[2] < height
        kept == SelectSeq(KernelOffsets(radius), inBounds)
    IN  [k \in 1 .. Len(kept) |->
            heights[(y + kept[k][2]) * width + (x + kept[k][1])]]

\* mutant: a 3x3 kernel
get5x5KernelHeights_3x3(heights, width, height, x, y) ==
    KernelHeights(heights, width, height, x, y, 1)

get5x5KernelHeights(heights, width, height, x, y) ==
    KernelHeights(heights, width, height, x, y, 2)

calculateMAD(values, median) ==
    LET absoluteDeviations == [k \in 1 .. Len(values) |-> Abs(values[k] - median)]
    IN  calculateMedian(absoluteDeviations)

\* 0.01 m in ticks: the epsilon of the Hampel threshold
epsilon == 2

\* mutant: more than 9 samples are required
HampelPixel_over9(heights, width, height, x, y) ==
    LET centerHeight == heights[y * width + x]
        kernelHeights == get5x5KernelHeights(heights, width, height, x, y)
        localMedian == calculateMedian(kernelHeights)
        mad == calculateMAD(kernelHeights, localMedian)
    IN  IF Len(kernelHeights) > 9
           /\ Abs(centerHeight - localMedian)
                 > HAMPEL_THRESHOLD_MULTIPLIER * (mad + epsilon)
        THEN localMedian
        ELSE centerHeight

\* the body of applyHampelFilter's loops: the value left in filtered[idx]
HampelPixel(heights, width, height, x, y) ==
    LET idx == y * width + x
        centerHeight == heights[idx]
        kernelHeights == get5x5KernelHeights(heights, width, height, x, y)
    IN  IF Len(kernelHeights) >= 9
        THEN LET localMedian == calculateMedian(kernelHeights)
                 mad == calculateMAD(kernelHeights, localMedian)
                 threshold == HAMPEL_THRESHOLD_MULTIPLIER * (mad + epsilon)
                 deviation == Abs(centerHeight - localMedian)
                 isSpike == deviation > threshold
             IN  IF isSpike THEN localMedian ELSE centerHeight
        ELSE centerHeight

applyNoFilter(imageData, width, height) ==
    LET data == imageData.data
    IN  [i \in Pixels(width, height) |->
            LET idx == i * 4
                r == data[idx]
                g == data[idx + 1]
                b == data[idx + 2]
            IN  terrainRGBToHeight(r, g, b)]

\* mutant: the pass reads the array it writes, so a pixel sees the medians
\* written for the pixels visited before it
HampelPass_inPlace(heights, output, width, height, order) ==
    LET after[k \in 0 .. Len(order)] ==
            IF k = 0 THEN output
            ELSE LET idx == order[k]
                     before == after[k - 1]
                 IN  [before EXCEPT ![idx] =
                         HampelPixel(before, width, height,
                                     idx % width, idx \div width)]
    IN  after[Len(order)]

\* the loops of applyHampelFilter over the pixels in the order given: each
\* pixel is decided from heights and the outcome is written to the output
\* array; after[k] is the output array after k pixels
HampelPass(heights, output, width, height, order) ==
    LET after[k \in 0 .. Len(order)] ==
            IF k = 0 THEN output
            ELSE LET idx == order[k]
                     before == after[k - 1]
                 IN  [before EXCEPT ![idx] =
                         HampelPixel(heights, width, height,
                                     idx % width, idx \div width)]
    IN  after[Len(order)]

\* the order of `for y ... for x ...`: idx = y * width + x ascending
RowMajor(width, height) == [k \in 1 .. width * height |-> k - 1]

\* heights is decoded first, filtered starts as a copy of it, then the pass
applyHampelFilter(imageData, width, height) ==
    LET heights == applyNoFilter(imageData, width, height)
    IN  HampelPass(heights, heights, width, height, RowMajor(width, height))

\* the earlier 8-neighbour filter: a pixel more than 200 m above the median
\* of its neighbours is replaced by that median
applyMedianFilter_8neighbour(imageData, width, height) ==
    LET heights == applyNoFilter(imageData, width, height)
        neighbours(x, y) ==
            LET inBounds(o) == /\ o # <<0, 0>>
                               /\ x + o[1] >= 0 /\ x + o[1] < width
                               /\ y + o[2] >= 0 /\ y + o[2] < height
                kept == SelectSeq(KernelOffsets(1), inBounds)
            IN  [k \in 1 .. Len(kept) |->
                    heights[(y + kept[k][2]) * width + (x + kept[k][1])]]
        pixelOut(x, y) ==
            LET currentHeight == heights[y * width + x]
                neighborHeights == neighbours(x, y)
            IN  IF Len(neighborHeights) > 0
                   /\ currentHeight - calculateMedian(neighborHeights) > Metres(200)
                THEN calculateMedian(neighborHeights)
                ELSE currentHeight
    IN  [idx \in Pixels(width, height) |-> pixelOut(idx % width, idx \div width)]

\* mutant: 'median' still selects the 8-neighbour filter
applyTerrainFilter_8neighbour(imageData, width, height, method) ==
    CASE method = "capping" -> applyCappingFilter(imageData, width, height)
      [] method = "median" -> applyMedianFilter_8neighbour(imageData, width, height)
      [] OTHER -> applyNoFilter(imageData, width, height)

applyTerrainFilter(imageData, width, height, method) ==
    CASE method = "capping" -> applyCappingFilter(imageData, width, height)
      [] method = "median" -> applyHampelFilter(imageData, width, height)
      [] OTHER -> applyNoFilter(imageData, width, height)

---------------------------------------------------------------------------
(* Filter specification: a raster and a method are drawn, the filter runs *)

\* largest raster width and height drawn
MaxDim == 5

\* the 24-bit value of 100.0 m
Base == Packed(<<1, 138, 136>>)

\* in steps of 0.1 m: small deviations around the Hampel threshold, a drop,
\* 3500.1 m, 8000.1 m, and -10000 m
SpikeDeltas == {1, 3, 4, 0 - 4, 34001, 79001, 0 - Base}

Patterns == {"flat", "rampX", "checker", "rough"}

PatternValue(pattern, x, y) ==
    CASE pattern = "flat" -> Base
      [] pattern = "rampX" -> Base + x
      [] pattern = "checker" -> Base + 3 * ((x + y) % 2)
      [] pattern = "rough" -> Base + 3 * ((7 * x + 13 * y) % 5)

\* the RGBA bytes of a width x height raster following a pattern, with the
\* pixel spikeAt (if any) displaced by delta
Raster(width, height, pattern, spikeAt, delta) ==
    LET value(i) == PatternValue(pattern, i % width, i \div width)
                        + (IF i = spikeAt THEN delta ELSE 0)
        byte(v, c) == CASE c = 0 -> v \div 65536
                        [] c = 1 -> (v \div 256) % 256
                        [] c = 2 -> v % 256
                        [] c = 3 -> 255
    IN  [width |-> width, height |-> height,
         data |-> [k \in 0 .. (4 * width * height - 1) |->
                      byte(value(k \div 4), k % 4)]]

DecodeIdle ==
    /\ pixel = <<0, 0, 0>>
    /\ decodedBy = {}
    /\ hFilters = 0
    /\ hTileUtils = 0
    /\ hHeatmap = 0

InitFilter ==
    /\ AppIdle
    /\ DecodeIdle
    /\ ParseIdle
    /\ MeshIdle
    /\ StitchIdle
    /\ TilesIdle
    /\ \E w \in 1 .. MaxDim, h \in 1 .. MaxDim, pattern \in Patterns :
          \/ terrainImageData = Raster(w, h, pattern, 0 - 1, 0)
          \/ \E at \in Pixels(w, h), delta \in SpikeDeltas :
                terrainImageData = Raster(w, h, pattern, at, delta)
    /\ filterMethod \in FilterMethods
    /\ heightField = <<>>
    /\ filtered = FALSE

\* mutant: the filter also stores its capped heights in the raster it read
\* (the green and blue bytes of every pixel are cleared)
Filter_writesBack ==
    /\ ~filtered
    /\ heightField' = applyTerrainFilter(terrainImageData, terrainImageData.width,
                                         terrainImageData.height, filterMethod)
    /\ filtered' = TRUE
    /\ terrainImageData' =
           [terrainImageData EXCEPT
               !.data = [k \in DOMAIN terrainImageData.data |->
                            IF filterMethod # "none" /\ k % 4 \in {1, 2}
                            THEN 0 ELSE terrainImageData.data[k]]]
    /\ UNCHANGED <<appVars, parseVars, meshVars, stitchVars, decodeVars, tileVars,
                   filterMethod>>

\* TerrainMesh's displacement effect filters the raster it was given
Filter ==
    /\ ~filtered
    /\ heightField' = applyTerrainFilter(terrainImageData, terrainImageData.width,
                                         terrainImageData.height, filterMethod)
    /\ filtered' = TRUE
    /\ UNCHANGED <<appVars, parseVars, meshVars, stitchVars, decodeVars, tileVars, terrainImageData,
                   filterMethod>>

\* the user selects another filter method
SetFilterMethod ==
    /\ \E m \in FilterMethods \ {filterMethod} : filterMethod' = m
    /\ filtered' = FALSE
    /\ heightField' = <<>>
    /\ UNCHANGED <<appVars, parseVars, meshVars, stitchVars, decodeVars, tileVars, terrainImageData>>

NextFilter == Filter \/ SetFilterMethod

SpecFilter == InitFilter /\ [][NextFilter]_vars

\* the size of the raster
imgW == terrainImageData.width
imgH == terrainImageData.height

---------------------------------------------------------------------------
(* Vertex displacement (TerrainMesh of components/MapCanvas.tsx)           *)
(*                                                                         *)
(* Elevations of vertices are exact fractions [num, den] of scene units.   *)

\* the largest mesh resolution displaced (the page offers 128 to 1024)
MaxSegments == 3

\* heightExaggeration in tenths: 1.0, 1.5 and 3.0
Exaggerations == {10, 15, 30}

\* horizontalDistanceMeters: a degenerate box, 1 km and 25 km
GroundWidths == {0, 1000, 25000}

\* the vertices of a plane geometry of segments x segments cells
Vertices(segments) == 0 .. ((segments + 1) * (segments + 1) - 1)

\* sampleHeight: the filtered height of the pixel, clamped into the raster
sampleHeight(filteredHeights, terrainWidth, terrainHeight, x, y) ==
    LET px == Max(0, Min(x, terrainWidth - 1))
        py == Max(0, Min(y, terrainHeight - 1))
    IN  filteredHeights[py * terrainWidth + px]

\* mutant: the horizontal weights of the interpolation are swapped
BilinearSample_swapped(filteredHeights, terrainWidth, terrainHeight, segments, i) ==
    LET terrainX == (i % (segments + 1)) * (terrainWidth - 1)
        terrainY == (i \div (segments + 1)) * (terrainHeight - 1)
        x0 == terrainX \div segments
        y0 == terrainY \div segments
        x1 == Min(x0 + 1, terrainWidth - 1)
        y1 == Min(y0 + 1, terrainHeight - 1)
        fx == terrainX - x0 * segments
        fy == terrainY - y0 * segments
        h00 == sampleHeight(filteredHeights, terrainWidth, terrainHeight, x0, y0)
        h10 == sampleHeight(filteredHeights, terrainWidth, terrainHeight, x1, y0)
        h01 == sampleHeight(filteredHeights, terrainWidth, terrainHeight, x0, y1)
        h11 == sampleHeight(filteredHeights, terrainWidth, terrainHeight, x1, y1)
        h0 == h00 * fx + h10 * (segments - fx)
        h1 == h01 * fx + h11 * (segments - fx)
    IN  h0 * (segments - fy) + h1 * fy

\* elevationMeters of vertex i, times segments^2: terrainX, terrainY, fx and
\* fy are held times segments, h0 and h1 times segments
BilinearSample(filteredHeights, terrainWidth, terrainHeight, segments, i) ==
    LET vertexX == i % (segments + 1)
        vertexY == i \div (segments + 1)
        terrainX == vertexX * (terrainWidth - 1)
        terrainY == vertexY * (terrainHeight - 1)
        x0 == terrainX \div segments
        y0 == terrainY \div segments
        x1 == Min(x0 + 1, terrainWidth - 1)
        y1 == Min(y0 + 1, terrainHeight - 1)
        fx == terrainX - x0 * segments
        fy == terrainY - y0 * segments
        h00 == sampleHeight(filteredHeights, terrainWidth, terrainHeight, x0, y0)
        h10 == sampleHeight(filteredHeights, terrainWidth, terrainHeight, x1, y0)
        h01 == sampleHeight(filteredHeights, terrainWidth, terrainHeight, x0, y1)
        h11 == sampleHeight(filteredHeights, terrainWidth, terrainHeight, x1, y1)
        h0 == h00 * (segments - fx) + h10 * fx
        h1 == h01 * (segments - fx) + h11 * fx
    IN  h0 * (segments - fy) + h1 * fy

\* the loop over filteredHeights that finds minElevation and maxElevation
ElevationStats(filteredHeights) ==
    [min |-> SetMin({filteredHeights[i] : i \in DOMAIN filteredHeights}),
     max |-> SetMax({filteredHeights[i] : i \in DOMAIN filteredHeights})]

planeWidth == 10

\* mutant: the normalized range is scaled to half of the plane width
BaseScale_half(realScale, distanceMeters, elevationRange) ==
    IF realScale
    THEN IF distanceMeters > 0
         THEN [num |-> planeWidth, den |-> 10 * DM * distanceMeters]
         ELSE [num |-> 1, den |-> 10 * 10 * DM]
    ELSE IF elevationRange > 0
         THEN [num |-> planeWidth, den |-> 2 * elevationRange]
         ELSE [num |-> 1, den |-> 100 * 10 * DM]

\* baseScale in scene units per tick of elevation (a metre is 10 * DM ticks):
\* planeWidth / horizontalDistanceMeters or 0.1 per metre in real scale,
\* planeWidth * 0.25 / elevationRange or 0.01 per metre otherwise
BaseScale(realScale, distanceMeters, elevationRange) ==
    IF realScale
    THEN IF distanceMeters > 0
         THEN [num |-> planeWidth, den |-> 10 * DM * distanceMeters]
         ELSE [num |-> 1, den |-> 10 * 10 * DM]
    ELSE IF elevationRange > 0
         THEN [num |-> planeWidth, den |-> 4 * elevationRange]
         ELSE [num |-> 1, den |-> 100 * 10 * DM]

\* mutant: the minimum is subtracted in both scale modes
Elevation_offset(sample, segments, stats, scale, realScale, exaggeration) ==
    [num |-> (sample - stats.min * segments * segments)
                 * scale.num * exaggeration,
     den |-> segments * segments * scale.den * 10]

\* mutant: the exaggeration is applied to the height above the minimum only
Elevation_aboveMin(sample, segments, stats, scale, realScale, exaggeration) ==
    IF realScale
    THEN [num |-> ((sample - stats.min * segments * segments) * exaggeration
                      + stats.min * segments * segments * 10) * scale.num,
          den |-> segments * segments * scale.den * 10]
    ELSE [num |-> (sample - stats.min * segments * segments)
                      * scale.num * exaggeration,
          den |-> segments * segments * scale.den * 10]

\* the z of a vertex: elevationMeters * baseScale * heightExaggeration in
\* real scale, (elevationMeters - minElevation) * baseScale *
\* heightExaggeration otherwise; sample is elevationMeters times segments^2
\* and exaggeration is in tenths
Elevation(sample, segments, stats, scale, realScale, exaggeration) ==
    IF realScale
    THEN [num |-> sample * scale.num * exaggeration,
          den |-> segments * segments * scale.den * 10]
    ELSE [num |-> (sample - stats.min * segments * segments)
                      * scale.num * exaggeration,
          den |-> segments * segments * scale.den * 10]

\* the dependencies of the displacement effect that the model varies
Deps ==
    [filterMethod |-> filterMethod, meshResolution |-> meshResolution,
     heightExaggeration |-> heightExaggeration, useRealScale |-> useRealScale]

\* TerrainMesh's displacement effect: the raster is filtered, the filtered
\* heights are sampled at every vertex and the scaled elevation is written
Displace ==
    /\ ~filtered
    /\ heightField' =
           applyTerrainFilter(terrainImageData, terrainImageData.width,
                              terrainImageData.height, filterMethod)
    /\ elevationStats' = ElevationStats(heightField')
    /\ baseScale' = BaseScale(useRealScale, horizontalDistanceMeters,
                              elevationStats'.max - elevationStats'.min)
    /\ elevationMeters' =
           [i \in Vertices(meshResolution) |->
               BilinearSample(heightField', terrainImageData.width,
                              terrainImageData.height, meshResolution, i)]
    /\ positions' =
           [i \in Vertices(meshResolution) |->
               Elevation(elevationMeters'[i], meshResolution, elevationStats',
                         baseScale', useRealScale, heightExaggeration)]
    /\ effectDeps' = Deps
    /\ filtered' = TRUE
    /\ UNCHANGED <<appVars, parseVars, stitchVars, decodeVars, tileVars, terrainImageData,
                   filterMethod, meshResolution, useRealScale,
                   heightExaggeration, horizontalDistanceMeters, gbaCall>>

\* the user moves the height exaggeration slider (1 to 5 in steps of 0.1)
SetHeightExaggeration ==
    /\ \E e \in Exaggerations \ {heightExaggeration} :
          heightExaggeration' = e
    /\ filtered' = FALSE
    /\ heightField' = <<>>
    /\ UNCHANGED <<appVars, parseVars, stitchVars, decodeVars, tileVars, terrainImageData,
                   filterMethod, meshResolution, useRealScale,
                   horizontalDistanceMeters, elevationStats, baseScale,
                   elevationMeters, positions, effectDeps, gbaCall>>

\* sampleElevationFromGBA for u = uNum / den and v = vNum / den; the result
\* is the elevation times den^2
sampleElevationFromGBA(heights, width, height, uNum, vNum, den) ==
    LET u == Max(0, Min(den, uNum))
        v == Max(0, Min(den, vNum))
        x == u * (width - 1)
        y == v * (height - 1)
        x0 == x \div den
        y0 == y \div den
        x1 == Min(x0 + 1, width - 1)
        y1 == Min(y0 + 1, height - 1)
        fx == x - x0 * den
        fy == y - y0 * den
        h00 == heights[y0 * width + x0]
        h10 == heights[y0 * width + x1]
        h01 == heights[y1 * width + x0]
        h11 == heights[y1 * width + x1]
        h0 == h00 * (den - fx) + h10 * fx
        h1 == h01 * (den - fx) + h11 * fx
    IN  h0 * (den - fy) + h1 * fy

\* the points <<uNum, vNum>> sampled, in steps of 1 / den: two corners, the
\* first lattice points inside, and a point outside the unit square
GbaPoints(den) ==
    {<<0, 0>>, <<den, den>>, <<1, 0>>, <<1, 1>>, <<0 - 1, den + 1>>}

\* a caller samples the filtered heights at a point of the unit square's
\* lattice of step 1 / meshResolution, or just outside the square
SampleGBA ==
    /\ filtered
    /\ gbaCall = <<>>
    /\ \E uv \in GbaPoints(meshResolution) :
          LET uNum == uv[1]
              vNum == uv[2]
          IN
          gbaCall' = [heights |-> heightField,
                      width |-> terrainImageData.width,
                      height |-> terrainImageData.height,
                      u |-> uNum, v |-> vNum, den |-> meshResolution,
                      elevation |->
                          sampleElevationFromGBA(heightField,
                                                 terrainImageData.width,
                                                 terrainImageData.height,
                                                 uNum, vNum, meshResolution)]
    /\ UNCHANGED <<appVars, parseVars, stitchVars, decodeVars, tileVars, filterVars,
                   meshResolution, useRealScale, heightExaggeration,
                   horizontalDistanceMeters, elevationStats, baseScale,
                   elevationMeters, positions, effectDeps>>

---------------------------------------------------------------------------
(* Mesh specification: a small raster, a scale mode, a ground width, a     *)
(* filter method and a resolution are drawn; the displacement effect runs  *)
(* again after each change of the exaggeration                             *)

\* the RGBA bytes of a width x height raster of the heights dm, in
\* decimetres (the 24-bit value of 0 m is 100000)
RasterOfHeights(width, height, dm) ==
    LET value(i) == 100000 + dm[i + 1]
        byte(v, c) == CASE c = 0 -> v \div 65536
                        [] c = 1 -> (v \div 256) % 256
                        [] c = 2 -> v % 256
                        [] c = 3 -> 255
    IN  [width |-> width, height |-> height,
         data |-> [k \in 0 .. (4 * width * height - 1) |->
                      byte(value(k \div 4), k % 4)]]

\* one peak of 1000 m, a plateau, a slope through sea level, one pixel, a
\* spike the Hampel filter removes, a column
MeshRasters ==
    {RasterOfHeights(2, 2, <<0, 0, 0, 10000>>),
     RasterOfHeights(2, 2, <<500, 500, 500, 500>>),
     RasterOfHeights(3, 2, <<0 - 500, 0, 1000, 2000, 2000, 300>>),
     RasterOfHeights(1, 1, <<120>>),
     RasterOfHeights(3, 3, <<100, 100, 100, 100, 1000, 100, 100, 100, 100>>),
     RasterOfHeights(1, 3, <<300, 0 - 200, 50>>)}

InitMesh ==
    /\ AppIdle
    /\ DecodeIdle
    /\ ParseIdle
    /\ StitchIdle
    /\ TilesIdle
    /\ terrainImageData \in MeshRasters
    /\ filterMethod \in FilterMethods
    /\ heightField = <<>>
    /\ filtered = FALSE
    /\ meshResolution \in 1 .. MaxSegments
    /\ useRealScale \in BOOLEAN
    /\ heightExaggeration = 10
    /\ horizontalDistanceMeters \in GroundWidths
    /\ elevationStats = [min |-> 0, max |-> 0]
    /\ baseScale = [num |-> 0, den |-> 1]
    /\ elevationMeters = <<>>
    /\ positions = [i \in Vertices(meshResolution) |-> [num |-> 0, den |-> 1]]
    /\ effectDeps = <<>>
    /\ gbaCall = <<>>

NextMesh ==
    \/ Displace
    \/ SetHeightExaggeration
    \/ SampleGBA

SpecMesh == InitMesh /\ [][NextMesh]_vars

---------------------------------------------------------------------------
(* Properties of the displacement *)

RECURSIVE GCD(_, _)
GCD(a, b) == IF b = 0 THEN a ELSE GCD(b, a % b)

\* a fraction with a positive denominator in lowest terms
Reduce(q) ==
    LET g == GCD(Abs(q.num), q.den)
    IN  [num |-> q.num \div g, den |-> q.den \div g]

RatEq(p, q) == Reduce(p) = Reduce(q)

RatLeq(p, q) ==
    LET x == Reduce(p)
        y == Reduce(q)
    IN  x.num * y.den <= y.num * x.den

\* the bilinear interpolation, times S * S, of the heights h of a W x H
\* field at the point (X / S, Y / S) in pixel coordinates: the four pixels
\* around the point, the upper indices clamped to W - 1 and H - 1, weighted
\* by the opposite partial areas
Interpolated(h, W, H, X, Y, S) ==
    LET x0 == CHOOSE n \in 0 .. (W - 1) : n * S <= X /\ X < (n + 1) * S
        y0 == CHOOSE n \in 0 .. (H - 1) : n * S <= Y /\ Y < (n + 1) * S
        col(a) == IF x0 + a > W - 1 THEN W - 1 ELSE x0 + a
        row(b) == IF y0 + b > H - 1 THEN H - 1 ELSE y0 + b
        wx(a) == IF a = 1 THEN X - x0 * S ELSE S - (X - x0 * S)
        wy(b) == IF b = 1 THEN Y - y0 * S ELSE S - (Y - y0 * S)
        term(a, b) == h[row(b) * W + col(a)] * wx(a) * wy(b)
    IN  term(0, 0) + term(1, 0) + term(0, 1) + term(1, 1)

\* the vertex in column i and row j of the (segments + 1)^2 grid
VertexAt(i, j) == j * (meshResolution + 1) + i

\* C16: the sampler of TerrainMesh returns heightField[0] at vertex (0,0)
\* and the last element at vertex (segments, segments), the common value
\* halfway between two equal neighbours, and in general the bilinear
\* interpolation of the four pixels around (i/segments*(W-1),
\* j/segments*(H-1)) with clamped upper indices; sampleElevationFromGBA
\* returns the same interpolation at (u, v) clamped into the unit square
C16_BilinearSampler ==
    /\ filtered =>
          LET S == meshResolution
          IN  /\ elevationMeters[VertexAt(0, 0)] = heightField[0] * S * S
              /\ elevationMeters[VertexAt(S, S)] =
                     heightField[imgW * imgH - 1] * S * S
              /\ \A i, j \in 0 .. S :
                    /\ elevationMeters[VertexAt(i, j)] =
                           Interpolated(heightField, imgW, imgH,
                                        i * (imgW - 1), j * (imgH - 1), S)
                    /\ (/\ 2 * ((i * (imgW - 1)) % S) = S
                        /\ (j * (imgH - 1)) % S = 0
                        /\ heightField[((j * (imgH - 1)) \div S) * imgW
                                          + (i * (imgW - 1)) \div S]
                             = heightField[((j * (imgH - 1)) \div S) * imgW
                                              + (i * (imgW - 1)) \div S + 1])
                       => elevationMeters[VertexAt(i, j)] =
                              heightField[((j * (imgH - 1)) \div S) * imgW
                                             + (i * (imgW - 1)) \div S] * S * S
    /\ gbaCall # <<>> =>
          LET c == gbaCall
              u == IF c.u < 0 THEN 0 ELSE IF c.u > c.den THEN c.den ELSE c.u
              v == IF c.v < 0 THEN 0 ELSE IF c.v > c.den THEN c.den ELSE c.v
          IN  /\ c.elevation =
                     Interpolated(c.heights, c.width, c.height,
                                  u * (c.width - 1), v * (c.height - 1), c.den)
              /\ (c.u = 0 /\ c.v = 0) =>
                     c.elevation = c.heights[0] * c.den * c.den
              /\ (c.u = c.den /\ c.v = c.den) =>
                     c.elevation =
                         c.heights[c.width * c.height - 1] * c.den * c.den

\* the 2 x 2 field [0, 0, 0, 1000] sampled on a 2 x 2 mesh: vertex (1,0) lies
\* halfway between two pixels of 0 m, vertex (1,1) in the middle of the four
C16_Witness ==
    /\ filtered
    /\ meshResolution = 2 /\ imgW = 2 /\ imgH = 2
    /\ heightField[3] = Metres(1000)
    /\ elevationMeters[VertexAt(1, 0)] = 0
    /\ elevationMeters[VertexAt(1, 1)] = Metres(1000)
    /\ elevationMeters[VertexAt(2, 2)] = 4 * Metres(1000)
    /\ gbaCall # <<>> /\ gbaCall.u = 1 /\ gbaCall.v = 1
    /\ gbaCall.elevation = Metres(1000)

\* the smallest and the largest value of the filtered heights
FieldMin == CHOOSE m \in {heightField[i] : i \in DOMAIN heightField} :
                \A i \in DOMAIN heightField : m <= heightField[i]
FieldMax == CHOOSE m \in {heightField[i] : i \in DOMAIN heightField} :
                \A i \in DOMAIN heightField : heightField[i] <= m

\* the sampled height of vertex i above h, times segments^2, in ticks
Above(i, h) == elevationMeters[i] - h * meshResolution * meshResolution

\* C17: in normalized mode every vertex elevation is (sampledHeight - min) *
\* baseScale * heightExaggeration with baseScale = planeWidth * 0.25 /
\* (max - min) when max > min: it lies in [0, 0.25 * planeWidth *
\* heightExaggeration], is that upper end where the maximum is sampled and 0
\* where the minimum is sampled; when max = min baseScale is 0.01 and every
\* elevation is 0
C17_NormalizedScale ==
    (filtered /\ ~useRealScale) =>
        LET S2 == meshResolution * meshResolution
            range == FieldMax - FieldMin
            top == [num |-> 25 * heightExaggeration, den |-> 100]
        IN  IF range > 0
            THEN /\ RatEq(baseScale, [num |-> 25, den |-> 10 * range])
                 /\ \A i \in DOMAIN positions :
                       /\ positions[i].den > 0
                       /\ RatEq(positions[i],
                                [num |-> Above(i, FieldMin) * heightExaggeration,
                                 den |-> 4 * range * S2])
                       /\ RatLeq([num |-> 0, den |-> 1], positions[i])
                       /\ RatLeq(positions[i], top)
                       /\ Above(i, FieldMax) = 0 => RatEq(positions[i], top)
                       /\ Above(i, FieldMin) = 0 => positions[i].num = 0
            ELSE /\ RatEq(baseScale, [num |-> 1, den |-> 100 * 10 * DM])
                 /\ \A i \in DOMAIN positions :
                       positions[i].den > 0 /\ positions[i].num = 0

\* the field [0, 0, 0, 1000] with exaggeration 1: baseScale is 0.0025 per
\* metre and the vertex at the peak is raised by 2.5
C17_Witness ==
    /\ filtered /\ ~useRealScale
    /\ imgW = 2 /\ imgH = 2
    /\ FieldMin = 0 /\ FieldMax = Metres(1000)
    /\ heightExaggeration = 10
    /\ RatEq(baseScale, [num |-> 25, den |-> 10000 * 10 * DM])
    /\ RatEq(positions[VertexAt(meshResolution, meshResolution)],
             [num |-> 5, den |-> 2])
    /\ positions[VertexAt(0, 0)].num = 0

C19_ExaggerationIsMultiplier ==
    [][(/\ ~filtered /\ filtered'
        /\ effectDeps # <<>>
        /\ effectDeps' = [effectDeps EXCEPT
                             !.heightExaggeration = heightExaggeration'])
       => /\ baseScale' = baseScale
          /\ elevationStats' = elevationStats
          /\ useRealScale' = useRealScale
          /\ DOMAIN positions' = DOMAIN positions
          /\ \A i \in DOMAIN positions :
                /\ positions'[i].den = positions[i].den
                /\ positions[i].num % effectDeps.heightExaggeration = 0
                /\ positions'[i].num % heightExaggeration' = 0
                /\ positions'[i].num \div heightExaggeration'
                       = positions[i].num \div effectDeps.heightExaggeration
                /\ effectDeps.heightExaggeration = 10 =>
                       (positions'[i].num \div heightExaggeration') * 10
                           = positions[i].num]_vars

\* the effect has run again with exaggeration 3 in each scale mode's way
C19_Witness ==
    /\ filtered
    /\ effectDeps # <<>> /\ effectDeps.heightExaggeration = 30
    /\ heightExaggeration = 30
    /\ imgW = 3 /\ imgH = 2
    /\ positions[VertexAt(0, 0)].num # 0

---------------------------------------------------------------------------
(* Properties of the filters *)

\* the decoded (8000-capped) height of every pixel of the raster
DecodedField ==
    [i \in Pixels(imgW, imgH) |->
        terrainRGBToHeight(terrainImageData.data[4 * i],
                           terrainImageData.data[4 * i + 1],
                           terrainImageData.data[4 * i + 2])]

\* the in-bounds pixels of the 5x5 window centred on pixel i
Window(i) ==
    LET x == i % imgW
        y == i \div imgW
    IN  {j \in Pixels(imgW, imgH) :
            /\ Abs((j % imgW) - x) <= 2
            /\ Abs((j \div imgW) - y) <= 2}

\* the k-th smallest of the values val[j], j in S, by rank
KthSmallest(S, val, k) ==
    CHOOSE v \in {val[j] : j \in S} :
        /\ Cardinality({j \in S : val[j] < v}) < k
        /\ k <= Cardinality({j \in S : val[j] <= v})

\* twice the median of the values val[j], j in S
TwiceMedian(S, val) ==
    LET n == Cardinality(S)
    IN  IF n % 2 = 0
        THEN KthSmallest(S, val, n \div 2) + KthSmallest(S, val, n \div 2 + 1)
        ELSE 2 * KthSmallest(S, val, (n + 1) \div 2)

\* the Hampel decision for pixel i of the field D, from ranks: twice the
\* window median M, and whether |center - M| > 3.0 * (MAD + 0.01 m) (both
\* sides multiplied by four; MAD is the median of |x_j - M|)
HampelByRank(D, i) ==
    LET W == Window(i)
        m2 == TwiceMedian(W, D)
        twiceDeviation == [j \in W |-> Abs(2 * D[j] - m2)]
        mad4 == TwiceMedian(W, twiceDeviation)
    IN  [samples |-> Cardinality(W),
         M2 |-> m2,
         MAD4 |-> mad4,
         isSpike |-> 2 * Abs(2 * D[i] - m2) > 3 * (mad4 + (Metres(4) \div 100))]

\* C3: the Hampel filter outputs the window median M of a pixel that has at
\* least 9 in-bounds samples in its 5x5 window and |center - M| > 3.0 * (MAD +
\* 0.01); every other pixel is output as decoded
C3_HampelPerPixel ==
    (filtered /\ filterMethod = "median") =>
        LET D == DecodedField
        IN  /\ DOMAIN heightField = Pixels(imgW, imgH)
            /\ \A i \in Pixels(imgW, imgH) :
                  LET r == HampelByRank(D, i)
                  IN  IF r.samples >= 9 /\ r.isSpike
                      THEN 2 * heightField[i] = r.M2
                      ELSE heightField[i] = D[i]

\* a spike replaced, a pixel with too few samples, and an even-sized window
\* of non-zero MAD
C3_Witness ==
    /\ filtered /\ filterMethod = "median"
    /\ LET D == DecodedField
       IN  /\ \E i \in Pixels(imgW, imgH) : heightField[i] # D[i]
           /\ \E i \in Pixels(imgW, imgH) :
                 Cardinality(Window(i)) < 9 /\ heightField[i] = D[i]
           /\ \E i \in Pixels(imgW, imgH) :
                 LET r == HampelByRank(D, i)
                 IN  /\ r.samples >= 9 /\ r.samples % 2 = 0
                     /\ r.MAD4 > 0 /\ heightField[i] = D[i]

ReverseOrder == [k \in 1 .. imgW * imgH |-> imgW * imgH - k]

\* C30: the Hampel filter's output does not depend on the order in which the
\* pixels are visited: the pass in the code's order gives what the pass in
\* the reverse order gives, and every pixel of it is the decision taken from
\* the decoded field alone
C30_HampelOrderIndependent ==
    (filtered /\ filterMethod = "median") =>
        LET D == DecodedField
        IN  /\ heightField = HampelPass(D, D, imgW, imgH, ReverseOrder)
            /\ \A i \in Pixels(imgW, imgH) :
                   heightField[i] =
                       HampelPixel(D, imgW, imgH, i % imgW, i \div imgW)

\* two pixels of the raster are replaced by their window medians, so the
\* second one's window held a pixel that the pass had already replaced
C30_Witness ==
    /\ filtered /\ filterMethod = "median"
    /\ LET D == DecodedField
       IN  \E i, j \in Pixels(imgW, imgH) :
               /\ i < j /\ j \in Window(i)
               /\ heightField[i] # D[i]
               /\ heightField[j] # D[j]

\* C4: on a field of width and height at least 3 that is constant c except at
\* no more than one pixel (which differs from c by more than 0.03 m), the
\* Hampel filter outputs c everywhere, and a second pass over its output
\* changes nothing
C4_IsolatedSpikeRemoved ==
    (filtered /\ filterMethod = "median" /\ imgW >= 3 /\ imgH >= 3) =>
        LET D == DecodedField
            flatButOne(c) ==
                LET off == {i \in Pixels(imgW, imgH) : D[i] # c}
                IN  /\ Cardinality(off) <= 1
                    /\ \A i \in off : Abs(D[i] - c) > (Metres(3) \div 100)
        \* of pixels 0 and 1 no more than one is the exception, so c is D[0] or D[1]
        IN  \A c \in {D[0], D[1]} :
                flatButOne(c) =>
                    /\ \A i \in Pixels(imgW, imgH) : heightField[i] = c
                    /\ \A i \in Pixels(imgW, imgH) :
                          HampelPixel(heightField, imgW, imgH,
                                      i % imgW, i \div imgW) = heightField[i]

C4_Witness ==
    /\ filtered /\ filterMethod = "median" /\ imgW >= 3 /\ imgH >= 3
    /\ LET D == DecodedField
       IN  \E i \in Pixels(imgW, imgH) :
              /\ D[i] = Metres(100) + DM
              /\ \A j \in Pixels(imgW, imgH) \ {i} : D[j] = Metres(100)
              /\ \A j \in Pixels(imgW, imgH) : heightField[j] = Metres(100)

\* C5: the capping filter outputs no value above 3500 m and leaves every
\* pixel whose decoded height is at most 3500 m as decoded
C5_CappingCeiling ==
    (filtered /\ filterMethod = "capping") =>
        LET D == DecodedField
        IN  /\ DOMAIN heightField = Pixels(imgW, imgH)
            /\ \A i \in Pixels(imgW, imgH) :
                  /\ heightField[i] <= Metres(3500)
                  /\ D[i] <= Metres(3500) => heightField[i] = D[i]

C5_Witness ==
    /\ filtered /\ filterMethod = "capping"
    /\ LET D == DecodedField
       IN  \E i, j \in Pixels(imgW, imgH) :
              /\ D[i] > Metres(3500) /\ heightField[i] = Metres(3500)
              /\ D[j] < Metres(3500) /\ heightField[j] = D[j]

\* C6: 'none' returns the decoded field, 'capping' the capping filter's
\* result and 'median' the Hampel filter's result
C6_StrategyByLabel ==
    filtered =>
        /\ filterMethod = "none" => heightField = DecodedField
        /\ filterMethod = "capping" =>
              heightField = applyCappingFilter(terrainImageData, imgW, imgH)
        /\ filterMethod = "median" =>
              heightField = applyHampelFilter(terrainImageData, imgW, imgH)

\* 'median' has produced a result the 8-neighbour filter would not
C6_Witness ==
    /\ filtered /\ filterMethod = "median"
    /\ heightField # applyMedianFilter_8neighbour(terrainImageData, imgW, imgH)
    /\ heightField # applyNoFilter(terrainImageData, imgW, imgH)

---------------------------------------------------------------------------
(* Tile geometry (lib/tileUtils) *)

(***************************************************************************)
(* A longitude is held as X = floor(2^GridBits * (lon / 360 + 0.5)) and a  *)
(* latitude as Y = floor(2^GridBits * (0.5 - ln((1 + sin lat) / (1 - sin   *)
(* lat)) / (4 pi))), the Web-Mercator fractions tilebelt computes: X runs  *)
(* from 0 (lon -180) to 2^GridBits (lon 180), Y grows southwards, is       *)
(* negative north of 85.0511 degrees and is -Infinity at latitude 90 and   *)
(* +Infinity at latitude -90, where the logarithm diverges.  For every     *)
(* zoom z <= GridBits, floor(2^z * f) = floor(2^GridBits * f) div          *)
(* 2^(GridBits - z), so the tile indices are exact.                        *)
(***************************************************************************)

\* the scan of calculateZoomLevel ends at zoom 18
MaxScanZoom == 18

GridBits == MaxScanZoom

\* the value standing for JavaScript's Infinity (-Infinity is its negative)
Infinity == 1000000000

IsInfinite(v) == v = Infinity \/ v = 0 - Infinity

RECURSIVE Pow2(_)
Pow2(n) == IF n = 0 THEN 1 ELSE 2 * Pow2(n - 1)

\* tilebelt.pointToTile: the floor of pointToTileFraction, which wraps x
\* (x % 2^z, so lon 180 gives the same column as lon -180) and leaves y as it is
pointToTile(lonX, latY, z) ==
    LET x == (lonX \div Pow2(GridBits - z)) % Pow2(z)
        y == IF IsInfinite(latY) THEN latY ELSE latY \div Pow2(GridBits - z)
    IN  <<x, y>>

\* Math.abs(a - b) + 1 on numbers that may be infinite
SpanPlusOne(a, b) ==
    IF IsInfinite(a) \/ IsInfinite(b) THEN Infinity ELSE Abs(a - b) + 1

\* totalTiles of calculateZoomLevel at zoom z
TotalTiles(box, z) ==
    LET topLeft == pointToTile(box.minLon, box.maxLat, z)
        bottomRight == pointToTile(box.maxLon, box.minLat, z)
        tilesX == SpanPlusOne(bottomRight[1], topLeft[1])
        tilesY == SpanPlusOne(bottomRight[2], topLeft[2])
    IN  IF tilesX = Infinity \/ tilesY = Infinity THEN Infinity
        ELSE tilesX * tilesY

\* mutant: the scan returns the zoom at which it breaks
RECURSIVE ZoomScan_break(_, _, _, _)
ZoomScan_break(box, budget, z, zoomSoFar) ==
    IF z > MaxScanZoom THEN zoomSoFar
    ELSE IF TotalTiles(box, z) <= budget
         THEN ZoomScan_break(box, budget, z + 1, z)
         ELSE z

\* the for loop of calculateZoomLevel from zoom z on, zoomSoFar being the
\* value of its variable zoom
RECURSIVE ZoomScan(_, _, _, _)
ZoomScan(box, budget, z, zoomSoFar) ==
    IF z > MaxScanZoom THEN zoomSoFar
    ELSE IF TotalTiles(box, z) <= budget
         THEN ZoomScan(box, budget, z + 1, z)
         ELSE zoomSoFar

\* mutant: the scan's result is returned without the clamp to 8..15
calculateZoomLevel_unclamped(box, budget) ==
    ZoomScan(box, budget, 0, 10)

calculateZoomLevel(box, budget) ==
    Max(8, Min(ZoomScan(box, budget, 0, 10), 15))

\* the tile range of getTilesForBoundingBox
TileRange(box, z) ==
    LET topLeft == pointToTile(box.minLon, box.maxLat, z)
        bottomRight == pointToTile(box.maxLon, box.minLat, z)
    IN  [minX |-> Min(topLeft[1], bottomRight[1]),
         maxX |-> Max(topLeft[1], bottomRight[1]),
         minY |-> Min(topLeft[2], bottomRight[2]),
         maxY |-> Max(topLeft[2], bottomRight[2])]

\* the tiles pushed by the inner loop for column x, from row y on
RECURSIVE TileColumn(_, _, _, _)
TileColumn(x, y, maxY, z) ==
    IF y <= maxY
    THEN <<[x |-> x, y |-> y, z |-> z]>> \o TileColumn(x, y + 1, maxY, z)
    ELSE <<>>

\* mutant: the loops nested the other way round, rows outside
RECURSIVE TileRow(_, _, _, _)
TileRow(x, maxX, y, z) ==
    IF x <= maxX
    THEN <<[x |-> x, y |-> y, z |-> z]>> \o TileRow(x + 1, maxX, y, z)
    ELSE <<>>

RECURSIVE TileColumns_rowsOutside(_, _, _, _, _)
TileColumns_rowsOutside(x, maxX, minY, maxY, z) ==
    IF minY <= maxY
    THEN TileRow(x, maxX, minY, z)
             \o TileColumns_rowsOutside(x, maxX, minY + 1, maxY, z)
    ELSE <<>>

\* the tiles pushed by the outer loop from column x on
RECURSIVE TileColumns(_, _, _, _, _)
TileColumns(x, maxX, minY, maxY, z) ==
    IF x <= maxX
    THEN TileColumn(x, minY, maxY, z) \o TileColumns(x + 1, maxX, minY, maxY, z)
    ELSE <<>>

\* y++ leaves -Infinity unchanged and y <= Infinity never fails: with an
\* infinite row bound the inner loop of getTilesForBoundingBox never ends
LoopsDiverge(box, z) ==
    LET r == TileRange(box, z)
    IN  r.minY = 0 - Infinity \/ r.maxY = Infinity

getTilesForBoundingBox(box, z) ==
    LET r == TileRange(box, z)
    IN  TileColumns(r.minX, r.maxX, r.minY, r.maxY, z)

---------------------------------------------------------------------------
(* Tile specification: a bounding box and a budget are drawn; the zoom is *)
(* calculated and the tiles are enumerated                                *)

\* the longest tile list enumerated
TileListCap == 64

\* the tile rectangle of box at zoom z has no more than TileListCap tiles
WithinCap(box, z) ==
    LET r == TileRange(box, z)
    IN  /\ r.maxX - r.minX < TileListCap
        /\ r.maxY - r.minY < TileListCap
        /\ (r.maxX - r.minX + 1) * (r.maxY - r.minY + 1) <= TileListCap

Equator == Pow2(GridBits - 1)

\* lon -180, lon 0 and small to large steps east of it, lon 180
SampleLon == {0, Equator, Equator + 1, Equator + 700, Equator + 4101,
              Pow2(GridBits)}

\* lat 90, a latitude north of 85.0511, the equator and small to large steps
\* south of it, lat -90
SampleLat == {0 - Infinity, 0 - 5, Equator, Equator + 1, Equator + 700,
              Equator + 4101, Infinity}

\* the boxes parseBoundingBox accepts: minLon < maxLon and minLat < maxLat
\* (two distinct coordinates may share a grid cell, but not lon 180 or a pole)
SampleBoxes ==
    {b \in [minLon : SampleLon, minLat : SampleLat,
            maxLon : SampleLon, maxLat : SampleLat] :
        /\ b.minLon <= b.maxLon /\ b.minLon # Pow2(GridBits)
        /\ b.maxLon # 0 \/ b.minLon = 0
        /\ b.maxLat <= b.minLat
        /\ b.maxLat # Infinity /\ b.minLat # 0 - Infinity}

SampleBudgets == {0, 1, 16}

InitTiles ==
    /\ AppIdle
    /\ DecodeIdle
    /\ ParseIdle
    /\ MeshIdle
    /\ StitchIdle
    /\ FilterIdle
    /\ bbox \in SampleBoxes
    /\ maxTiles \in SampleBudgets
    /\ zoom = 10
    /\ zoomKnown = FALSE
    /\ zoomArg = 0
    /\ tiles = <<>>
    /\ tilesCall = "idle"
    /\ tileRequests = 0

\* calculateZoomLevel(bbox, maxTiles)
CalculateZoom ==
    /\ ~zoomKnown
    /\ zoom' = calculateZoomLevel(bbox, maxTiles)
    /\ zoomKnown' = TRUE
    /\ UNCHANGED <<appVars, parseVars, meshVars, stitchVars, decodeVars, filterVars, bbox, maxTiles, zoomArg, tiles,
                   tilesCall, tileRequests>>

\* getTilesForBoundingBox(bbox, z) for any zoom z
GetTiles ==
    /\ tilesCall = "idle"
    /\ \E z \in 0 .. MaxScanZoom :
          /\ zoomArg' = z
          /\ \/ /\ LoopsDiverge(bbox, z)
                /\ tilesCall' = "diverged"
                /\ tiles' = <<>>
             \/ /\ ~LoopsDiverge(bbox, z)
                /\ WithinCap(bbox, z)
                /\ tilesCall' = "returned"
                /\ tiles' = getTilesForBoundingBox(bbox, z)
    /\ UNCHANGED <<appVars, parseVars, meshVars, stitchVars, decodeVars, filterVars, bbox, maxTiles, zoom, zoomKnown,
                   tileRequests>>

\* loadTiles: the zoom for the default budget, the tiles at that zoom, and
\* three stitches (satellite, streets, terrain-rgb) that each fetch every tile
LoadTiles ==
    /\ maxTiles = 16
    /\ tilesCall = "idle"
    /\ ~zoomKnown
    /\ LET z == calculateZoomLevel(bbox, 16)
       IN  /\ zoom' = z
           /\ zoomKnown' = TRUE
           /\ zoomArg' = z
           /\ \/ /\ LoopsDiverge(bbox, z)
                 /\ tilesCall' = "diverged"
                 /\ tiles' = <<>>
                 /\ tileRequests' = 0
              \/ /\ ~LoopsDiverge(bbox, z)
                 /\ WithinCap(bbox, z)
                 /\ tilesCall' = "returned"
                 /\ tiles' = getTilesForBoundingBox(bbox, z)
                 /\ tileRequests' = 3 * Len(tiles')
    /\ UNCHANGED <<appVars, parseVars, meshVars, stitchVars, decodeVars, filterVars, bbox, maxTiles>>

NextTiles == CalculateZoom \/ GetTiles \/ LoadTiles

SpecTiles == InitTiles /\ [][NextTiles]_vars

---------------------------------------------------------------------------
(* Properties of the tile geometry *)

\* the tile indices of the two corners of bbox at the zoom handed over
CornerTopLeft == pointToTile(bbox.minLon, bbox.maxLat, zoomArg)
CornerBottomRight == pointToTile(bbox.maxLon, bbox.minLat, zoomArg)

\* C7: for every bounding box and zoom, getTilesForBoundingBox returns
\* (maxX-minX+1)*(maxY-minY+1) tiles, every (x,y) of the inclusive rectangle
\* of the two corners' tile indices exactly once, all with the requested z,
\* and exactly one tile when both corners fall in the same tile
C7_TileRectangle ==
    tilesCall # "idle" =>
        /\ tilesCall = "returned"
        /\ LET minX == Min(CornerTopLeft[1], CornerBottomRight[1])
               maxX == Max(CornerTopLeft[1], CornerBottomRight[1])
               minY == Min(CornerTopLeft[2], CornerBottomRight[2])
               maxY == Max(CornerTopLeft[2], CornerBottomRight[2])
           IN  /\ Len(tiles) = (maxX - minX + 1) * (maxY - minY + 1)
               /\ \A x \in minX .. maxX, y \in minY .. maxY :
                     Cardinality({k \in 1 .. Len(tiles) :
                                     tiles[k].x = x /\ tiles[k].y = y}) = 1
               /\ \A k \in 1 .. Len(tiles) : tiles[k].z = zoomArg
               /\ CornerTopLeft = CornerBottomRight => Len(tiles) = 1

\* the tile count of box at zoom z exceeds the budget (tilesX * tilesY is
\* not formed when a factor alone exceeds it)
Exceeds(box, z, budget) ==
    LET topLeft == pointToTile(box.minLon, box.maxLat, z)
        bottomRight == pointToTile(box.maxLon, box.minLat, z)
        tilesX == SpanPlusOne(bottomRight[1], topLeft[1])
        tilesY == SpanPlusOne(bottomRight[2], topLeft[2])
    IN  tilesX > budget \/ tilesY > budget \/ tilesX * tilesY > budget

\* z*: the last zoom before the first zoom of 0..18 whose tile count exceeds
\* the budget (18 when none does, -1 when zoom 0 already does)
ZStar(box, budget) ==
    LET over == {z \in 0 .. MaxScanZoom :
                    /\ Exceeds(box, z, budget)
                    /\ \A y \in 0 .. (z - 1) : ~Exceeds(box, y, budget)}
    IN  IF over = {} THEN MaxScanZoom ELSE (CHOOSE z \in over : TRUE) - 1

Clamp8to15(z) == IF z < 8 THEN 8 ELSE IF z > 15 THEN 15 ELSE z

Contains(B, A) ==
    /\ B.minLon <= A.minLon /\ A.maxLon <= B.maxLon
    /\ B.maxLat <= A.maxLat /\ A.minLat <= B.minLat

\* C9: with the budget fixed, the zoom of a box is never larger than the
\* zoom of a box it contains
C9_ZoomMonotone ==
    zoomKnown =>
        \A A \in SampleBoxes :
            Contains(bbox, A) => zoom <= calculateZoomLevel(A, maxTiles)

\* C10 as stated: the tiles at the calculated zoom number at most maxTiles,
\* and a load issues at most 3 * maxTiles requests
C10_Original ==
    (tilesCall = "returned" /\ zoomKnown /\ zoomArg = zoom) =>
        /\ Len(tiles) <= maxTiles
        /\ tileRequests <= 3 * maxTiles

\* C10: when z* is at least 8, so that the clamp does not raise the zoom, the
\* tiles at the calculated zoom number at most maxTiles, and a load issues
\* three requests per tile, at most 3 * maxTiles
C10_BudgetWhenNotRaised ==
    (tilesCall = "returned" /\ zoomKnown /\ zoomArg = zoom
        /\ ZStar(bbox, maxTiles) >= 8) =>
        /\ Len(tiles) <= maxTiles
        /\ tileRequests <= 3 * maxTiles
        /\ tileRequests # 0 => tileRequests = 3 * Len(tiles)

C10_Witness ==
    /\ tilesCall = "returned" /\ zoomKnown /\ zoomArg = zoom
    /\ ZStar(bbox, maxTiles) = 10
    /\ Len(tiles) = 9
    /\ tileRequests = 27

\* the rectangle of the two corners' tile indices at the zoom handed over
CornerRange ==
    [minX |-> Min(CornerTopLeft[1], CornerBottomRight[1]),
     maxX |-> Max(CornerTopLeft[1], CornerBottomRight[1]),
     minY |-> Min(CornerTopLeft[2], CornerBottomRight[2]),
     maxY |-> Max(CornerTopLeft[2], CornerBottomRight[2])]

\* C11 as stated: the returned list is in row-major order, the k-th tile
\* (from 0) being column minX + k mod tilesX of row minY + k div tilesX
C11_Original ==
    tilesCall = "returned" =>
        LET r == CornerRange
            tilesX == r.maxX - r.minX + 1
        IN  \A k \in 1 .. Len(tiles) :
                /\ tiles[k].x = r.minX + ((k - 1) % tilesX)
                /\ tiles[k].y = r.minY + ((k - 1) \div tilesX)

\* C11: the list getTilesForBoundingBox returns is in column-major order:
\* all tiles of column x = minX come first with y ascending from minY to
\* maxY, then all tiles of column minX + 1, and so on up to maxX
C11_ColumnMajorOrder ==
    tilesCall = "returned" =>
        LET r == CornerRange
            tilesY == r.maxY - r.minY + 1
        IN  /\ Len(tiles) = (r.maxX - r.minX + 1) * tilesY
            /\ \A k \in 1 .. Len(tiles) :
                   /\ tiles[k].x = r.minX + ((k - 1) \div tilesY)
                   /\ tiles[k].y = r.minY + ((k - 1) % tilesY)

C11_Witness ==
    /\ tilesCall = "returned"
    /\ CornerRange.maxX - CornerRange.minX = 2
    /\ CornerRange.maxY - CornerRange.minY = 2
    /\ Len(tiles) = 9
    /\ tiles[2].x = tiles[1].x /\ tiles[2].y = tiles[1].y + 1
    /\ tiles[4].x = tiles[1].x + 1 /\ tiles[4].y = tiles[1].y

\* C28: for a box parseBoundingBox accepts and a zoom from 8 to 15 the tiles
\* returned by getTilesForBoundingBox cover the box: the bounds of all tiles
\* contain it (west and north edges at or before the box's, east and south
\* edges at or after), which is what keeps the crop window of stitchTiles
\* inside the composite canvas
C28_TilesCoverBox ==
    (tilesCall = "returned" /\ zoomArg \in 8 .. 15) =>
        LET cell == Pow2(GridBits - zoomArg)
            X == {tiles[k].x : k \in 1 .. Len(tiles)}
            Y == {tiles[k].y : k \in 1 .. Len(tiles)}
        IN  /\ Len(tiles) > 0
            /\ SetMin(X) * cell <= bbox.minLon
            /\ bbox.maxLon <= (SetMax(X) + 1) * cell
            /\ SetMin(Y) * cell <= bbox.maxLat
            /\ bbox.minLat <= (SetMax(Y) + 1) * cell

---------------------------------------------------------------------------
(* Tile stitching (lib/tileStitcher.ts)                                    *)
(*                                                                         *)
(* Longitudes stay in grid units (a linear image of degrees, so the crop's *)
(* ratios are the same); latitudes are degrees counted in microdegrees,    *)
(* because the crop interpolates linearly in degrees of latitude.          *)

tileSize == 512

\* the styles loadTiles stitches
Styles == {"satellite", "streets", "terrain-rgb"}

\* tilebelt.tile2lon: the western edge of column x, in grid units
tile2lon(x, z) == x * Pow2(GridBits - z)

\* the latitude in microdegrees of grid row y (atan(sinh(pi * (1 - 2y/2^18))),
\* rounded), for the rows the stitched boxes and their tiles touch
LatitudeOf(y) ==
    CASE y = Equator - 8 -> 10986
      [] y = Equator - 3 -> 4120
      [] y = Equator -> 0
      [] y = Equator + 2 -> 0 - 2747
      [] y = Equator + 7 -> 0 - 9613
      [] y = Equator + 8 -> 0 - 10986
      [] y = Equator + 16 -> 0 - 21973

\* tilebelt.tile2lat: the northern edge of row y
tile2lat(y, z) == LatitudeOf(y * Pow2(GridBits - z))

\* tileToBoundingBox: tilebelt.tileToBBOX gives [west, south, east, north]
tileToBoundingBox(tile) ==
    [minLon |-> tile2lon(tile.x, tile.z),
     minLat |-> tile2lat(tile.y + 1, tile.z),
     maxLon |-> tile2lon(tile.x + 1, tile.z),
     maxLat |-> tile2lat(tile.y, tile.z)]

\* Array.from(map.keys()).sort((a, b) => a - b): the distinct keys, ascending
RECURSIVE SortedKeys(_)
SortedKeys(S) ==
    IF S = {} THEN <<>>
    ELSE <<SetMin(S)>> \o SortedKeys(S \ {SetMin(S)})

xCoords(tileList) == SortedKeys({tileList[k].x : k \in 1 .. Len(tileList)})
yCoords(tileList) == SortedKeys({tileList[k].y : k \in 1 .. Len(tileList)})

\* Array.prototype.indexOf, for a value the array holds
indexOf(array, v) == (CHOOSE i \in 1 .. Len(array) : array[i] = v) - 1

\* mutant: every task writes into the first row of the composite
CellOf_firstRow(tileList, k) ==
    <<indexOf(xCoords(tileList), tileList[k].x), 0>>

\* the cell <<xIndex, yIndex>> of the composite that the task of tile k
\* draws or fills
CellOf(tileList, k) ==
    <<indexOf(xCoords(tileList), tileList[k].x),
      indexOf(yCoords(tileList), tileList[k].y)>>

\* what a cell of the composite holds
Blank == [fill |-> "transparent", tile |-> 0]
Placeholder == [fill |-> "#808080", tile |-> 0]
ImageOf(k) == [fill |-> "image", tile |-> k]

\* the bounds of all tiles, computed before the canvas is created
CompositeBounds(tileList) ==
    LET tileBboxes == [k \in 1 .. Len(tileList) |->
                          tileToBoundingBox(tileList[k])]
        K == 1 .. Len(tileList)
    IN  [minLon |-> SetMin({tileBboxes[k].minLon : k \in K}),
         maxLon |-> SetMax({tileBboxes[k].maxLon : k \in K}),
         minLat |-> SetMin({tileBboxes[k].minLat : k \in K}),
         maxLat |-> SetMax({tileBboxes[k].maxLat : k \in K})]

\* Math.ceil(a / b) for a >= 0 and b > 0
CeilDiv(a, b) == (a + b - 1) \div b

\* mutant: the empty list is noticed only after the canvas was created
ThrowNoTiles_afterCanvas ==
    /\ stitchPc' = "rejected"
    /\ canvas' = [created |-> TRUE, width |-> 0, height |-> 0]
    /\ UNCHANGED <<taskPc, taskResult, fetchIssued, composite>>

\* throw new Error('No tiles provided'): the promise of stitchTiles rejects
ThrowNoTiles ==
    /\ stitchPc' = "rejected"
    /\ UNCHANGED <<taskPc, taskResult, fetchIssued, canvas, composite>>

\* stitchTiles up to await Promise.all: the canvas is created and the
\* callback of tiles.map runs for every tile up to its await fetch(url)
StitchStart ==
    /\ stitchPc = "idle"
    /\ IF Len(tiles) = 0
       THEN ThrowNoTiles
       ELSE LET columns == xCoords(tiles)
                rows == yCoords(tiles)
            IN  /\ stitchPc' = "awaiting"
                /\ canvas' = [created |-> TRUE,
                              width |-> Len(columns) * tileSize,
                              height |-> Len(rows) * tileSize]
                /\ composite' = [c \in (0 .. Len(columns) - 1)
                                          \X (0 .. Len(rows) - 1) |-> Blank]
                /\ taskPc' = [k \in 1 .. Len(tiles) |-> "fetch"]
                /\ taskResult' = [k \in 1 .. Len(tiles) |-> "pending"]
                /\ fetchIssued' = 1 .. Len(tiles)
    /\ UNCHANGED <<appVars, parseVars, meshVars, decodeVars, filterVars, tileVars, style, croppedCanvas,
                   loadOutcome>>

\* mutant: the catch block logs the error and fills nothing
Caught_noFill(k, thrown) ==
    /\ taskPc' = [taskPc EXCEPT ![k] = "settled"]
    /\ taskResult' = [taskResult EXCEPT ![k] = thrown]
    /\ UNCHANGED composite

\* the catch block of a tile task: the tile's cell is filled with the
\* placeholder colour and the task's promise is fulfilled
Caught(k, thrown) ==
    /\ taskPc' = [taskPc EXCEPT ![k] = "settled"]
    /\ taskResult' = [taskResult EXCEPT ![k] = thrown]
    /\ composite' = [composite EXCEPT ![CellOf(tiles, k)] = Placeholder]

TaskUnchanged ==
    UNCHANGED <<appVars, parseVars, meshVars, decodeVars, filterVars, tileVars, style, stitchPc, fetchIssued,
                canvas, croppedCanvas, loadOutcome>>

\* fetch(url) resolves with response.ok
FetchOk ==
    /\ \E k \in DOMAIN taskPc :
          /\ taskPc[k] = "fetch"
          /\ taskPc' = [taskPc EXCEPT ![k] = "blob"]
    /\ UNCHANGED <<taskResult, composite>>
    /\ TaskUnchanged

\* fetch(url) rejects: a network error
FetchRejects ==
    /\ \E k \in DOMAIN taskPc :
          /\ taskPc[k] = "fetch"
          /\ Caught(k, "network error")
    /\ TaskUnchanged

\* fetch(url) resolves with a non-2xx response: the task throws
FetchNotOk ==
    /\ \E k \in DOMAIN taskPc :
          /\ taskPc[k] = "fetch"
          /\ Caught(k, "Failed to fetch tile")
    /\ TaskUnchanged

\* response.blob() resolves
BlobRead ==
    /\ \E k \in DOMAIN taskPc :
          /\ taskPc[k] = "blob"
          /\ taskPc' = [taskPc EXCEPT ![k] = "bitmap"]
    /\ UNCHANGED <<taskResult, composite>>
    /\ TaskUnchanged

\* response.blob() rejects: the body could not be read
BlobRejects ==
    /\ \E k \in DOMAIN taskPc :
          /\ taskPc[k] = "blob"
          /\ Caught(k, "body error")
    /\ TaskUnchanged

\* createImageBitmap(blob) resolves: the image is drawn into the tile's cell
BitmapDrawn ==
    /\ \E k \in DOMAIN taskPc :
          /\ taskPc[k] = "bitmap"
          /\ taskPc' = [taskPc EXCEPT ![k] = "settled"]
          /\ taskResult' = [taskResult EXCEPT ![k] = "drawn"]
          /\ composite' = [composite EXCEPT ![CellOf(tiles, k)] = ImageOf(k)]
    /\ TaskUnchanged

\* createImageBitmap(blob) rejects: the image cannot be decoded
BitmapRejects ==
    /\ \E k \in DOMAIN taskPc :
          /\ taskPc[k] = "bitmap"
          /\ Caught(k, "decode error")
    /\ TaskUnchanged

\* mutant: the stitch goes on as soon as one task has settled
AllSettled_any(pcs) == \E k \in DOMAIN pcs : pcs[k] = "settled"

\* Promise.all(tilePromises) is fulfilled: every task's promise is
\* (no task's promise rejects, every error being caught inside the task)
AllSettled(pcs) == \A k \in DOMAIN pcs : pcs[k] = "settled"

\* the size of the cropped canvas
CropSize(tileList, box, composed) ==
    LET bounds == CompositeBounds(tileList)
        lonRange == bounds.maxLon - bounds.minLon
        latRange == bounds.maxLat - bounds.minLat
        lonSpan == box.maxLon - box.minLon
        latSpan == LatitudeOf(box.maxLat) - LatitudeOf(box.minLat)
    IN  [width |-> CeilDiv(lonSpan * composed.width, lonRange),
         height |-> CeilDiv(latSpan * composed.height, latRange)]

\* stitchTiles after await Promise.all: the composite is cropped to the
\* bounding box and the promise of stitchTiles is fulfilled
StitchCrop ==
    /\ stitchPc = "awaiting"
    /\ AllSettled(taskPc)
    /\ croppedCanvas' = CropSize(tiles, bbox, canvas)
    /\ stitchPc' = "resolved"
    /\ UNCHANGED <<appVars, parseVars, meshVars, decodeVars, filterVars, tileVars, style, taskPc, taskResult,
                   fetchIssued, canvas, composite, loadOutcome>>

\* loadTiles after an awaited stitchTiles was fulfilled: the texture is set
LoadTexture ==
    /\ stitchPc = "resolved"
    /\ loadOutcome = "none"
    /\ loadOutcome' = "rendered"
    /\ UNCHANGED <<appVars, parseVars, meshVars, decodeVars, filterVars, tileVars, style, stitchPc, taskPc,
                   taskResult, fetchIssued, canvas, composite, croppedCanvas>>

\* loadTiles' catch block after an awaited stitchTiles rejected
LoadCatch ==
    /\ stitchPc = "rejected"
    /\ loadOutcome = "none"
    /\ loadOutcome' = "error"
    /\ UNCHANGED <<appVars, parseVars, meshVars, decodeVars, filterVars, tileVars, style, stitchPc, taskPc,
                   taskResult, fetchIssued, canvas, composite, croppedCanvas>>

---------------------------------------------------------------------------
(* Stitch specification: a box of about a kilometre at the equator, the    *)
(* tiles of its zoom (or no tile, or a list naming a tile twice) and a     *)
(* style are drawn; one stitchTiles call runs under every interleaving     *)

StitchLon == {Equator + 1, Equator + 5, Equator + 12}
StitchLat == {Equator - 3, Equator + 2, Equator + 7}

StitchBoxes ==
    {b \in [minLon : StitchLon, minLat : StitchLat,
            maxLon : StitchLon, maxLat : StitchLat] :
        b.minLon < b.maxLon /\ b.maxLat < b.minLat}

\* the lists handed to stitchTiles for box at zoom z
TileLists(box, z) ==
    LET list == getTilesForBoundingBox(box, z)
    IN  {<<>>, list, list \o <<list[1]>>}

InitStitch ==
    /\ AppIdle
    /\ DecodeIdle
    /\ ParseIdle
    /\ MeshIdle
    /\ FilterIdle
    /\ bbox \in StitchBoxes
    /\ maxTiles = 16
    /\ zoom = calculateZoomLevel(bbox, maxTiles)
    /\ zoomKnown = TRUE
    /\ zoomArg = zoom
    /\ tiles \in TileLists(bbox, zoom)
    /\ tilesCall = "returned"
    /\ tileRequests = 0
    /\ style \in Styles
    /\ stitchPc = "idle"
    /\ taskPc = <<>>
    /\ taskResult = <<>>
    /\ fetchIssued = {}
    /\ canvas = [created |-> FALSE, width |-> 0, height |-> 0]
    /\ composite = <<>>
    /\ croppedCanvas = [width |-> 0, height |-> 0]
    /\ loadOutcome = "none"

NextStitch ==
    \/ StitchStart
    \/ FetchOk \/ FetchRejects \/ FetchNotOk
    \/ BlobRead \/ BlobRejects
    \/ BitmapDrawn \/ BitmapRejects
    \/ StitchCrop
    \/ LoadTexture \/ LoadCatch

SpecStitch == InitStitch /\ [][NextStitch]_vars

---------------------------------------------------------------------------
(* Properties of the stitch *)

TaskIds == 1 .. Len(tiles)

\* the task of tile k ended in its catch block
Failed(k) == taskResult[k] \notin {"pending", "drawn"}

\* C12: stitchTiles called with an empty tile list rejects, the caller's
\* catch block is what runs next, and no fetch was issued and no canvas was
\* created or drawn
C12_EmptyListRejects ==
    (Len(tiles) = 0 /\ stitchPc # "idle") =>
        /\ stitchPc = "rejected"
        /\ loadOutcome \in {"none", "error"}
        /\ fetchIssued = {}
        /\ ~canvas.created
        /\ composite = <<>>
        /\ croppedCanvas = [width |-> 0, height |-> 0]

C12_Witness ==
    /\ Len(tiles) = 0
    /\ stitchPc = "rejected"
    /\ loadOutcome = "error"
    /\ fetchIssued = {}

\* C13: for a non-empty list every tile's fetch has been issued before any
\* task completes a step; the stitch crops and returns only when every task
\* has settled; a step of one task (a failure included) changes no other
\* task; and the stitch never rejects
C13_ConcurrentFetchAllSettle ==
    /\ [](Len(tiles) > 0 =>
            /\ stitchPc # "idle" => fetchIssued = TaskIds
            /\ stitchPc = "resolved" =>
                   \A k \in TaskIds :
                       taskPc[k] = "settled" /\ taskResult[k] # "pending"
            /\ stitchPc # "rejected")
    /\ [][(Len(tiles) > 0 /\ stitchPc = "awaiting") =>
            /\ stitchPc' = "resolved" =>
                   \A k \in TaskIds : taskResult[k] # "pending"
            /\ \A k \in TaskIds :
                   taskPc'[k] # taskPc[k] =>
                       \A j \in TaskIds \ {k} :
                           /\ taskPc'[j] = taskPc[j]
                           /\ taskResult'[j] = taskResult[j]]_vars

\* all four fetches are in flight, then one tile fails and its siblings are
\* drawn before the stitch returns
C13_Witness ==
    /\ Len(tiles) = 4
    /\ stitchPc = "resolved"
    /\ taskResult[1] = "network error"
    /\ taskResult[2] = "Failed to fetch tile"
    /\ taskResult[3] = "decode error"
    /\ taskResult[4] = "drawn"
    /\ fetchIssued = 1 .. 4

\* the size of the cropped canvas, from the tile list and the box alone
ExpectedCrop ==
    LET X == {tiles[k].x : k \in TaskIds}
        Y == {tiles[k].y : k \in TaskIds}
        cell == Pow2(GridBits - zoomArg)
        west == SetMin(X) * cell
        east == (SetMax(X) + 1) * cell
        north == LatitudeOf(SetMin(Y) * cell)
        south == LatitudeOf((SetMax(Y) + 1) * cell)
        w == (bbox.maxLon - bbox.minLon) * Cardinality(X) * 512
        h == (LatitudeOf(bbox.maxLat) - LatitudeOf(bbox.minLat))
                 * Cardinality(Y) * 512
    IN  [width |-> CHOOSE n \in 1 .. 2048 :
                      (n - 1) * (east - west) < w /\ w <= n * (east - west),
         height |-> CHOOSE n \in 1 .. 2048 :
                      (n - 1) * (north - south) < h /\ h <= n * (north - south)]

\* the composite cell of tile k, by rank among the distinct coordinates
RankCell(k) ==
    <<Cardinality({tiles[j].x : j \in TaskIds} \cap (0 .. tiles[k].x - 1)),
      Cardinality({tiles[j].y : j \in TaskIds} \cap (0 .. tiles[k].y - 1))>>

NoDuplicateTiles ==
    \A j, k \in TaskIds : (j # k) => tiles[j] # tiles[k]

C15_ErrorIffAllTilesFail ==
    (Len(tiles) > 0 /\ loadOutcome # "none") =>
        (loadOutcome = "error" <=> \A k \in TaskIds : Failed(k))

\* the task of tile k takes its last step: it draws or fills
Settles(k) == taskPc[k] # "settled" /\ taskPc'[k] = "settled"

\* C26: the composite is (distinct x) * 512 by (distinct y) * 512 pixels;
\* a step changes a cell only if it is the last step of a task whose tile
\* has that cell's ranks; and for a list without duplicate (x,y) pairs the
\* cells of different tasks differ and lie inside the composite, so a cell
\* that was written is never written again
C26_DisjointCells ==
    /\ [](canvas.created =>
            /\ canvas.width = Cardinality({tiles[k].x : k \in TaskIds}) * 512
            /\ canvas.height = Cardinality({tiles[k].y : k \in TaskIds}) * 512
            /\ NoDuplicateTiles =>
                   \A k \in TaskIds :
                       /\ (RankCell(k)[1] + 1) * 512 <= canvas.width
                       /\ (RankCell(k)[2] + 1) * 512 <= canvas.height
                       /\ \A j \in TaskIds \ {k} : RankCell(j) # RankCell(k))
    /\ [][stitchPc = "awaiting" =>
            \A c \in DOMAIN composite :
                composite'[c] # composite[c] =>
                    /\ \E k \in TaskIds : Settles(k) /\ c = RankCell(k)
                    /\ NoDuplicateTiles => composite[c] = Blank]_vars

\* four tiles of a 2 x 2 rectangle: every cell holds its own tile's image or
\* the placeholder of its own tile's failure
C26_Witness ==
    /\ Len(tiles) = 4 /\ NoDuplicateTiles
    /\ canvas.width = 1024 /\ canvas.height = 1024
    /\ \A k \in TaskIds : taskPc[k] = "settled"
    /\ composite[<<0, 0>>] = ImageOf(1)
    /\ composite[<<0, 1>>] = Placeholder
    /\ composite[<<1, 0>>] = ImageOf(3)
    /\ composite[<<1, 1>>] = ImageOf(4)

---------------------------------------------------------------------------
(* Parsing the bounding box text (lib/tileUtils parseBoundingBox) *)

(***************************************************************************)
(* A text is a sequence of characters, with the word Infinity held as one  *)
(* element.  The texts of the model hold no decimal point and no exponent, *)
(* so every number parseFloat reads from them is an integer of degrees or  *)
(* plus or minus Infinity.  A number is a record: nan says that it is NaN, *)
(* value is its value otherwise.                                           *)
(***************************************************************************)

\* the decimal digits and what each stands for
DigitValue ==
    ("0" :> 0) @@ ("1" :> 1) @@ ("2" :> 2) @@ ("3" :> 3) @@ ("4" :> 4) @@
    ("5" :> 5) @@ ("6" :> 6) @@ ("7" :> 7) @@ ("8" :> 8) @@ ("9" :> 9)

Digits == DOMAIN DigitValue

RECURSIVE Decimal(_)
\* the integer a run of digits writes
Decimal(digits) ==
    IF digits = <<>> THEN 0
    ELSE 10 * Decimal(SubSeq(digits, 1, Len(digits) - 1))
             + DigitValue[digits[Len(digits)]]

NaN == [nan |-> TRUE, value |-> 0]

Number(v) == [nan |-> FALSE, value |-> v]

isNaN(number) == number.nan

RECURSIVE split(_, _)
\* String.prototype.split: the pieces between the separators, in order
split(text, separator) ==
    LET at == {i \in 1..Len(text) : text[i] = separator}
    IN IF at = {} THEN <<text>>
       ELSE <<SubSeq(text, 1, SetMin(at) - 1)>>
                \o split(SubSeq(text, SetMin(at) + 1, Len(text)), separator)

\* String.prototype.trim: the text without its leading and trailing blanks
trim(text) ==
    LET kept == {i \in 1..Len(text) : text[i] # " "}
    IN IF kept = {} THEN <<>> ELSE SubSeq(text, SetMin(kept), SetMax(kept))

\* parseFloat: leading blanks are skipped, then the longest prefix that is a
\* number is read and whatever follows it is ignored; NaN when no prefix is
\* a number
parseFloat(text) ==
    LET kept == {i \in 1..Len(text) : text[i] # " "}
        t == IF kept = {} THEN <<>> ELSE SubSeq(text, SetMin(kept), Len(text))
        signed == Len(t) > 0 /\ t[1] \in {"-", "+"}
        sign == IF Len(t) > 0 /\ t[1] = "-" THEN 0 - 1 ELSE 1
        body == IF signed THEN Tail(t) ELSE t
        n == CHOOSE n \in 0..Len(body) :
                 /\ \A i \in 1..n : body[i] \in Digits
                 /\ n < Len(body) => body[n + 1] \notin Digits
    IN IF n > 0 THEN Number(sign * Decimal(SubSeq(body, 1, n)))
       ELSE IF Len(body) > 0 /\ body[1] = "Infinity"
            THEN Number(sign * Infinity)
            ELSE NaN

\* parseBoundingBox(input): the box in degrees, or null
parseBoundingBox(input) ==
    LET pieces == split(input, ",")
        parts == [k \in 1..Len(pieces) |-> trim(pieces[k])]
    IN IF Len(parts) # 4 THEN Null
       ELSE LET minLon == parseFloat(parts[1])
                minLat == parseFloat(parts[2])
                maxLon == parseFloat(parts[3])
                maxLat == parseFloat(parts[4])
            IN IF \/ isNaN(minLon) \/ isNaN(minLat)
                  \/ isNaN(maxLon) \/ isNaN(maxLat)
                  \/ minLon.value >= maxLon.value
                  \/ minLat.value >= maxLat.value
                  \/ minLon.value < 0 - 180 \/ maxLon.value > 180
                  \/ minLat.value < 0 - 90 \/ maxLat.value > 90
               THEN Null
               ELSE [result |-> "box",
                     minLon |-> minLon.value, minLat |-> minLat.value,
                     maxLon |-> maxLon.value, maxLat |-> maxLat.value]

\* a call of parseBoundingBox on the text of the field
ParseBoundingBox ==
    /\ parsed.result = "pending"
    /\ parsed' = parseBoundingBox(bboxInput)
    /\ UNCHANGED <<bboxInput, decodeVars, filterVars, tileVars, stitchVars,
                   meshVars, appVars>>

\* longitude texts: numbers in and out of range, a number followed by
\* letters, letters, Infinity
LonTexts ==
    { <<"-", "1", "8", "1">>, <<"-", "1", "8", "0">>, <<"6">>, <<"1", "2">>,
      <<"1", "8", "0">>, <<"1", "8", "1">>, <<"6", "a", "b", "c">>,
      <<"a", "b", "c">>, <<"Infinity">> }

\* latitude texts: numbers in and out of range, a number between blanks,
\* nothing, -Infinity
LatTexts ==
    { <<"-", "9", "1">>, <<"-", "9", "0">>, <<"4", "5">>,
      <<" ", "4", "8", " ">>, <<"9", "0">>, <<"9", "1">>, <<>>,
      <<"-", "Infinity">> }

\* the texts tried: every minLon,minLat,maxLon,maxLat of the texts above, and
\* texts of no, three and five pieces
BboxTexts ==
    { a \o <<",">> \o b \o <<",">> \o c \o <<",">> \o d :
          a \in LonTexts, b \in LatTexts, c \in LonTexts, d \in LatTexts }
    \cup { <<>>,
           <<"6", ",", "4", "5", ",", "1", "2">>,
           <<"6", ",", "4", "5", ",", "1", "2", ",", "4", "8", ",">>,
           <<"6", ",", "4", "5", ",", "1", "2", ",", "4", "8", ",", "0">> }

InitParse ==
    /\ AppIdle
    /\ DecodeIdle
    /\ FilterIdle
    /\ TilesIdle
    /\ StitchIdle
    /\ MeshIdle
    /\ bboxInput \in BboxTexts
    /\ parsed = [result |-> "pending"]

NextParse == ParseBoundingBox

SpecParse == InitParse /\ [][NextParse]_vars

(* Claims about parseBoundingBox *)

\* a text that writes a finite number and nothing else: an optional sign and
\* one or more digits, blanks around them allowed
IsNumeral(text) ==
    LET t == trim(text)
        body == IF Len(t) > 0 /\ t[1] \in {"-", "+"} THEN Tail(t) ELSE t
    IN Len(body) > 0 /\ \A i \in 1..Len(body) : body[i] \in Digits

\* the number a numeral writes
NumeralValue(text) ==
    LET t == trim(text)
    IN IF t[1] = "-" THEN 0 - Decimal(Tail(t))
       ELSE IF t[1] = "+" THEN Decimal(Tail(t)) ELSE Decimal(t)

\* C20: parseBoundingBox returns null for every text that is not exactly
\* four comma-separated numbers, has a non-numeric or non-finite coordinate,
\* has minLon >= maxLon or minLat >= maxLat, or has a longitude outside
\* [-180, 180] or a latitude outside [-90, 90]; so every box it returns has
\* minLon < maxLon, minLat < maxLat and all four coordinates in range
C20_InvalidInputIsNull ==
    parsed.result # "pending" =>
        LET pieces == split(bboxInput, ",")
            v(k) == NumeralValue(pieces[k])
            valid ==
                /\ Len(pieces) = 4
                /\ \A k \in 1..4 : IsNumeral(pieces[k])
                /\ v(1) < v(3) /\ v(2) < v(4)
                /\ v(1) >= 0 - 180 /\ v(3) <= 180
                /\ v(2) >= 0 - 90 /\ v(4) <= 90
        IN /\ ~valid => parsed = Null
           /\ parsed.result = "box" =>
                  /\ parsed.minLon < parsed.maxLon
                  /\ parsed.minLat < parsed.maxLat
                  /\ parsed.minLon >= 0 - 180 /\ parsed.maxLon <= 180
                  /\ parsed.minLat >= 0 - 90 /\ parsed.maxLat <= 90

---------------------------------------------------------------------------
(* The page and its map component: handleGenerate stores a parsed box, the *)
(* load effect stitches satellite, streets and terrain-rgb in turn, and    *)
(* TerrainMesh rebuilds and displaces its geometry after every commit      *)

\* the largest number of loadTiles calls followed
MaxLoads == 3

\* the styles in the order loadTiles stitches them
StitchOrder == <<"satellite", "streets", "terrain-rgb">>

\* the texts typed into the field: a 1 x 1 degree box, a 2 x 1 degree box, the
\* first box with letters after its first number, and letters for a number
AppTexts ==
    { <<"6", ",", "4", "5", ",", "7", ",", "4", "6">>,
      <<"6", ",", "4", "5", ",", "8", ",", "4", "6">>,
      <<"6", "a", "b", "c", ",", "4", "5", ",", "7", ",", "4", "6">>,
      <<"a", "b", "c", ",", "4", "5", ",", "7", ",", "4", "6">> }

\* the filter methods selected: the page's default and one other
AppFilterMethods == {"median", "capping"}

\* the slider positions tried, in tenths
AppExaggerations == {10, 20}

\* the mesh resolutions tried
AppResolutions == {1, 2}

\* the page's default filter method
DefaultFilterMethod == "median"

\* a longitude in degrees on the grid of the tile model
LonToGrid(lon) == (Pow2(GridBits) * (lon + 180)) \div 360

\* a latitude in degrees on the grid of the tile model (Web Mercator)
LatToGrid(lat) ==
    CASE lat = 45 -> 94299
      [] lat = 46 -> 93260

\* the box in degrees as the tile functions of the model take it
GridBox(box) ==
    [minLon |-> LonToGrid(box.minLon), minLat |-> LatToGrid(box.minLat),
     maxLon |-> LonToGrid(box.maxLon), maxLat |-> LatToGrid(box.maxLat)]

\* calculateDistanceMeters along the middle latitude of the box, in metres:
\* the haversine distance of 1 and of 2 degrees of longitude at 45.5 N
calculateDistanceMeters(box) ==
    CASE box.maxLon - box.minLon = 1 -> 77937
      [] box.maxLon - box.minLon = 2 -> 155871

\* planeHeight = 10 * (latDiff / lonDiff), as a fraction
PlaneHeight(box) ==
    [num |-> planeWidth * (box.maxLat - box.minLat),
     den |-> box.maxLon - box.minLon]

SameNumber(a, b) == a.num * b.den = b.num * a.den

\* the size of the cropped canvas of a stitch for the box, one pixel of the
\* model standing for a block of the canvas: the wider box is wider
CropDims(box) ==
    [width |-> (box.maxLon - box.minLon) + 1,
     height |-> (box.maxLat - box.minLat) + 1]

\* the ImageData of the terrain-rgb stitch of load l
TerrainOf(box, l) ==
    LET dims == CropDims(box)
        raster == Raster(dims.width, dims.height,
                         IF dims.width = 2 THEN "rampX" ELSE "rough", 0 - 1, 0)
    IN  [width |-> raster.width, height |-> raster.height,
         data |-> raster.data, load |-> l]

\* the canvas of a stitch of load l, wrapped in a texture
TextureOf(box, l, s) ==
    [load |-> l, style |-> s, width |-> CropDims(box).width,
     height |-> CropDims(box).height]

\* a height decoded from bytes beyond the end of the raster
NaNTicks == 0 - 2 * Infinity

\* applyTerrainFilter called with a width and a height that need not be the
\* raster's: pixels are read in the order of their index, and a pixel beyond
\* the data decodes undefined bytes to NaN, which no comparison of a filter
\* replaces (the rasters here have fewer than 9 pixels, so no Hampel kernel
\* is large enough to take a median of values with a NaN among them)
FilterAsGiven(imageData, width, height, method) ==
    LET within == {i \in Pixels(width, height) :
                      i * 4 + 2 \in DOMAIN imageData.data}
        all == within = Pixels(width, height)
        read == applyTerrainFilter(imageData,
                    IF all THEN width ELSE Cardinality(within),
                    IF all THEN height ELSE 1,
                    IF all \/ method # "median" THEN method ELSE "none")
    IN  [i \in Pixels(width, height) |->
            IF i \in within THEN read[i] ELSE NaNTicks]

\* the loop that finds min and max: a NaN is neither smaller nor larger
MinMax(filteredHeights) ==
    LET values == {filteredHeights[i] : i \in DOMAIN filteredHeights}
                      \ {NaNTicks}
    IN  IF values = {} THEN [min |-> Infinity, max |-> 0 - Infinity]
        ELSE [min |-> SetMin(values), max |-> SetMax(values)]

\* the four pixels sampled for vertex i
Corners(terrainWidth, terrainHeight, segments, i) ==
    LET x0 == ((i % (segments + 1)) * (terrainWidth - 1)) \div segments
        y0 == ((i \div (segments + 1)) * (terrainHeight - 1)) \div segments
        x1 == Min(x0 + 1, terrainWidth - 1)
        y1 == Min(y0 + 1, terrainHeight - 1)
    IN  {y * terrainWidth + x : x \in {x0, x1}, y \in {y0, y1}}

\* elevationMeters of vertex i: NaN as soon as one sampled pixel is NaN
SampleOrNaN(filteredHeights, terrainWidth, terrainHeight, segments, i) ==
    IF \E c \in Corners(terrainWidth, terrainHeight, segments, i) :
           filteredHeights[c] = NaNTicks
    THEN NaNTicks
    ELSE BilinearSample(filteredHeights, terrainWidth, terrainHeight,
                        segments, i)

\* the z of a vertex whose elevation is NaN
NaNPosition == [num |-> 0, den |-> 0]

\* the z of every vertex of a new PlaneGeometry
Flat(segments) == [i \in Vertices(segments) |-> [num |-> 0, den |-> 1]]

\* the z the displacement loop writes for every vertex
Displaced(heights, width, height, segments, distance, exaggeration) ==
    LET stats == MinMax(heights)
        scale == BaseScale(TRUE, distance, stats.max - stats.min)
    IN  [i \in Vertices(segments) |->
            LET sample == SampleOrNaN(heights, width, height, segments, i)
            IN  IF sample = NaNTicks THEN NaNPosition
                ELSE Elevation(sample, segments, stats, scale, TRUE,
                               exaggeration)]

\* what no action of the page or of its map component changes
appFrame == <<decodeVars, stitchVars, maxTiles, zoom, zoomKnown, zoomArg,
              tiles, tilesCall, tileRequests, useRealScale, gbaCall, token>>

\* the dependency list of the displacement effect
DisplacementDeps(image, exaggeration, width, height, segments, method) ==
    [terrainImageData |-> image.load, heightExaggeration |-> exaggeration,
     terrainWidth |-> width, terrainHeight |-> height,
     planeWidth |-> planeWidth, meshResolution |-> segments,
     filterMethod |-> method, useRealScale |-> useRealScale]

\* TerrainMesh after a commit: rendered while the page has a box and the
\* map has a raster; the geometry effect builds a flat plane when
\* meshResolution or planeHeight changed, then the displacement effect runs
\* when one of its dependencies changed
TerrainMeshEffects ==
    IF ~(bbox' # Null /\ viewMode' = "r3f" /\ terrainImageData' # Null)
    THEN /\ geometry' = Null
         /\ heightField' = <<>>
         /\ filtered' = FALSE
         /\ horizontalDistanceMeters' = 1000
         /\ elevationStats' = [min |-> 0, max |-> 0]
         /\ baseScale' = [num |-> 0, den |-> 1]
         /\ elevationMeters' = <<>>
         /\ positions' = <<>>
         /\ effectDeps' = <<>>
    ELSE LET mounts == geometry = Null
             deps == DisplacementDeps(terrainImageData', heightExaggeration',
                                      textureWidth', textureHeight',
                                      meshResolution', filterMethod')
             planeHeight == PlaneHeight(bbox')
             geometryRuns ==
                 \/ mounts
                 \/ meshResolution' # geometry.segments
                 \/ ~SameNumber(planeHeight, geometry.planeHeight)
             displacementRuns == mounts \/ deps # effectDeps
         IN  /\ geometry' = IF geometryRuns
                            THEN [segments |-> meshResolution',
                                  planeHeight |-> planeHeight]
                            ELSE geometry
             /\ horizontalDistanceMeters' = calculateDistanceMeters(bbox')
             /\ effectDeps' = deps
             /\ IF displacementRuns
                THEN /\ heightField' =
                            FilterAsGiven(terrainImageData', textureWidth',
                                          textureHeight', filterMethod')
                     /\ filtered' = TRUE
                     /\ elevationStats' = MinMax(heightField')
                     /\ baseScale' =
                            BaseScale(useRealScale, horizontalDistanceMeters',
                                      elevationStats'.max - elevationStats'.min)
                     /\ elevationMeters' =
                            [i \in Vertices(meshResolution') |->
                                SampleOrNaN(heightField', textureWidth',
                                            textureHeight', meshResolution', i)]
                     /\ positions' =
                            Displaced(heightField', textureWidth',
                                      textureHeight', meshResolution',
                                      horizontalDistanceMeters',
                                      heightExaggeration')
                ELSE /\ positions' = IF geometryRuns THEN Flat(meshResolution')
                                     ELSE positions
                     /\ UNCHANGED <<heightField, filtered, elevationStats,
                                    baseScale, elevationMeters>>

\* what CanvasControls registers with the page
ExportFunctions == [result |-> "functions"]

\* a commit of the map component (MapCanvas, or CityscapeMap, which copies
\* its state and its load effect) with the state its handler or continuation
\* set, or with the state as constructed when the component is mounted by
\* the commit: CanvasControls, rendered once there is a raster, registers
\* the export functions; the effects of MapCanvas's TerrainMesh run; and the
\* heatmap effect of MapCanvas regenerates minElevation, maxElevation and
\* the heatmap from the state's raster and the state's texture size when
\* one of them or the filter method changed (it filters with the arguments
\* of the displacement effect of the same commit, whose result is
\* heightField)
Commit(mounts, sat, str, heat, minE, maxE, width, height, image) ==
    /\ satelliteTexture' = IF mounts THEN NoTexture ELSE sat
    /\ streetsTexture' = IF mounts THEN NoTexture ELSE str
    /\ textureWidth' = IF mounts THEN 0 ELSE width
    /\ textureHeight' = IF mounts THEN 0 ELSE height
    /\ terrainImageData' = IF mounts THEN Null ELSE image
    /\ exportFunctions' = IF bbox' # Null /\ terrainImageData' # Null
                          THEN ExportFunctions ELSE exportFunctions
    /\ TerrainMeshEffects
    /\ LET regenerates ==
               /\ viewMode' = "r3f"
               /\ terrainImageData' # Null
               /\ textureWidth' > 0 /\ textureHeight' > 0
               /\ <<terrainImageData', textureWidth', textureHeight',
                     filterMethod'>>
                      # <<terrainImageData, textureWidth, textureHeight,
                          filterMethod>>
           range == MinMax(heightField')
       IN  /\ minElevation' = IF regenerates THEN range.min
                              ELSE IF mounts THEN 0 ELSE minE
           /\ maxElevation' = IF regenerates THEN range.max
                              ELSE IF mounts THEN 0 ELSE maxE
           /\ heatmapTexture' =
                  IF regenerates
                  THEN [load |-> terrainImageData'.load, style |-> "heatmap",
                        width |-> textureWidth', height |-> textureHeight']
                  ELSE IF mounts THEN NoTexture ELSE heat

\* a commit in which the map component's own state was not set
Rerender ==
    Commit(FALSE, satelliteTexture, streetsTexture, heatmapTexture,
           minElevation, maxElevation, textureWidth, textureHeight,
           terrainImageData)

\* the stitch a load starts first
FirstStitch == {StitchOrder[1]}

\* mutant: streets and terrain-rgb are both started once the satellite
\* stitch has resolved
StitchAfter_together(s) ==
    CASE s = StitchOrder[1] -> {StitchOrder[2], StitchOrder[3]}
      [] s = StitchOrder[2] -> {}
      [] s = StitchOrder[3] -> {}

\* the stitch a load starts when its stitch of a style has resolved
StitchAfter(s) ==
    CASE s = StitchOrder[1] -> {StitchOrder[2]}
      [] s = StitchOrder[2] -> {StitchOrder[3]}
      [] s = StitchOrder[3] -> {}

\* loadTiles up to its first await, called by the load effect of the map
\* component of mount m for the box and the filter method of its render:
\* loading is set, and without a token cleared again at once; with a token
\* the zoom is calculated, the tiles are enumerated and the satellite
\* stitch is started
StartLoad(component, m, box, method) ==
    IF token = ""
    THEN /\ loading' = FALSE
         /\ loads' = loads
    ELSE LET z == calculateZoomLevel(GridBox(box), maxTiles)
         IN  /\ loading' = TRUE
             /\ loads' = Append(loads,
                    [component |-> component, mount |-> m, bbox |-> box,
                     filterMethod |-> method, zoom |-> z,
                     tiles |-> getTilesForBoundingBox(GridBox(box), z),
                     pc |-> StitchOrder[1], started |-> FirstStitch,
                     resolved |-> {}])

\* the map component the page renders in a view mode
ComponentOf(mode) == IF mode = "r3f" THEN "MapCanvas" ELSE "CityscapeMap"

InvalidFormat == [message |-> "Invalid bounding box format"]

\* the handler of a Generate button that shows the map of a view mode: a text parseBoundingBox rejects sets the error
\* and returns; otherwise the box and the view mode are stored, the map
\* component is mounted unless it is shown already, and its load effect runs
Generate(mode) ==
    /\ \E text \in AppTexts : bboxInput' = text
    /\ parsed' = parseBoundingBox(bboxInput')
    /\ UNCHANGED <<filterMethod, meshResolution, heightExaggeration>>
    /\ LET mounts == bbox = Null \/ viewMode # mode
           m == IF mounts THEN mount + 1 ELSE mount
       IN  /\ IF parsed' = Null
              THEN /\ error' = InvalidFormat
                   /\ UNCHANGED <<bbox, viewMode, loading, mount, loads>>
              ELSE /\ Len(loads) < MaxLoads /\ m <= MaxLoads
                   /\ error' = Null
                   /\ bbox' = parsed'
                   /\ viewMode' = mode
                   /\ mount' = m
                   /\ StartLoad(ComponentOf(mode), m, parsed', filterMethod)
           /\ Commit(parsed' # Null /\ mounts, satelliteTexture,
                     streetsTexture, heatmapTexture, minElevation,
                     maxElevation, textureWidth, textureHeight,
                     terrainImageData)

\* the Generate 3D Map button, disabled while loading
handleGenerate ==
    /\ ~loading
    /\ UNCHANGED appFrame
    /\ Generate("r3f")

\* the Cityscape button, disabled while loading
handleGenerateCityscape ==
    /\ ~loading
    /\ UNCHANGED appFrame
    /\ Generate("cityscape")

\* the filter method is selected in the controls panel (shown once the
\* page has a box and the export functions): the load effect of the map component runs again, and so
\* do the effects that depend on the filter method
onFilterMethodChange ==
    /\ bbox # Null /\ exportFunctions # Null
    /\ \E m \in AppFilterMethods \ {filterMethod} : filterMethod' = m
    /\ Len(loads) < MaxLoads
    /\ StartLoad(ComponentOf(viewMode), mount, bbox, filterMethod')
    /\ UNCHANGED <<bboxInput, parsed, error, bbox, viewMode, mount,
                   meshResolution, heightExaggeration>>
    /\ Rerender
    /\ UNCHANGED appFrame

\* the mesh resolution is selected in the controls panel
onMeshResolutionChange ==
    /\ bbox # Null /\ exportFunctions # Null
    /\ \E r \in AppResolutions \ {meshResolution} : meshResolution' = r
    /\ UNCHANGED <<bboxInput, parsed, error, bbox, viewMode, loading, mount,
                   loads, filterMethod, heightExaggeration>>
    /\ Rerender
    /\ UNCHANGED appFrame

\* the height exaggeration slider of the controls panel is moved
onHeightChange ==
    /\ bbox # Null /\ exportFunctions # Null
    /\ \E e \in AppExaggerations \ {heightExaggeration} :
          heightExaggeration' = e
    /\ UNCHANGED <<bboxInput, parsed, error, bbox, viewMode, loading, mount,
                   loads, filterMethod, meshResolution>>
    /\ Rerender
    /\ UNCHANGED appFrame

\* load l belongs to the map component that is mounted now: the state
\* updates of any other load are dropped
Current(l) == loads[l].mount = mount

\* the stitch load l awaits has resolved
Resolve(l, next) ==
    loads' = [loads EXCEPT ![l].pc = next,
                           ![l].resolved = @ \cup {loads[l].pc},
                           ![l].started = @ \cup StitchAfter(loads[l].pc)]

\* the continuation of load l after its satellite stitch: the texture and
\* the size of its canvas are stored and the streets stitch is started
SatelliteStitched ==
    /\ \E l \in DOMAIN loads :
          /\ loads[l].pc = StitchOrder[1]
          /\ UNCHANGED <<bboxInput, parsed, error, bbox, viewMode, loading, mount,
                         filterMethod, meshResolution, heightExaggeration>>
          /\ Resolve(l, StitchOrder[2])
          /\ LET result == TextureOf(loads[l].bbox, l, StitchOrder[1])
             IN  Commit(FALSE,
                        IF Current(l) THEN result ELSE satelliteTexture,
                        streetsTexture, heatmapTexture, minElevation, maxElevation,
                        IF Current(l) THEN result.width ELSE textureWidth,
                        IF Current(l) THEN result.height ELSE textureHeight,
                        terrainImageData)
    /\ UNCHANGED appFrame

\* the continuation of load l after its streets stitch: the texture is
\* stored and the terrain-rgb stitch is started
StreetsStitched ==
    /\ \E l \in DOMAIN loads :
          /\ loads[l].pc = StitchOrder[2]
          /\ UNCHANGED <<bboxInput, parsed, error, bbox, viewMode, loading, mount,
                         filterMethod, meshResolution, heightExaggeration>>
          /\ Resolve(l, StitchOrder[3])
          /\ Commit(FALSE, satelliteTexture,
                    IF Current(l) THEN TextureOf(loads[l].bbox, l, StitchOrder[2])
                    ELSE streetsTexture,
                    heatmapTexture, minElevation, maxElevation, textureWidth,
                    textureHeight, terrainImageData)
    /\ UNCHANGED appFrame

\* the raster of load l is filtered with the load's filter method and
\* minElevation, maxElevation and the heatmap are stored, if the load is of
\* the component mounted now
CommitHeatmap(l, image) ==
    LET own == TerrainOf(loads[l].bbox, l)
        range == MinMax(applyTerrainFilter(own, own.width, own.height,
                                           loads[l].filterMethod))
    IN  Commit(FALSE, satelliteTexture, streetsTexture,
               IF Current(l)
               THEN [load |-> l, style |-> "heatmap", width |-> own.width,
                     height |-> own.height]
               ELSE heatmapTexture,
               IF Current(l) THEN range.min ELSE minElevation,
               IF Current(l) THEN range.max ELSE maxElevation,
               textureWidth, textureHeight,
               IF Current(l) THEN image ELSE terrainImageData)

\* the continuation of a load of MapCanvas after its terrain-rgb stitch: the
\* raster is stored and the import of the filters is awaited
TerrainStitched ==
    /\ \E l \in DOMAIN loads :
          /\ loads[l].pc = StitchOrder[3]
          /\ loads[l].component = "MapCanvas"
          /\ UNCHANGED <<bboxInput, parsed, error, bbox, viewMode, loading,
                         mount, filterMethod, meshResolution,
                         heightExaggeration>>
          /\ Resolve(l, "import")
          /\ Commit(FALSE, satelliteTexture, streetsTexture, heatmapTexture,
                    minElevation, maxElevation, textureWidth, textureHeight,
                    IF Current(l) THEN TerrainOf(loads[l].bbox, l)
                    ELSE terrainImageData)
    /\ UNCHANGED appFrame

\* the continuation of a load of MapCanvas after the import: the heatmap of
\* the load's raster is stored and loading is cleared
FiltersImported ==
    /\ \E l \in DOMAIN loads :
          /\ loads[l].pc = "import"
          /\ UNCHANGED <<bboxInput, parsed, error, bbox, viewMode, mount,
                         filterMethod, meshResolution, heightExaggeration>>
          /\ loads' = [loads EXCEPT ![l].pc = "settled"]
          /\ loading' = FALSE
          /\ CommitHeatmap(l, terrainImageData)
    /\ UNCHANGED appFrame

\* the continuation of a load of CityscapeMap after its terrain-rgb stitch:
\* no import is awaited, so the raster and its heatmap are stored and
\* loading is cleared in one step
CityscapeTerrainStitched ==
    /\ \E l \in DOMAIN loads :
          /\ loads[l].pc = StitchOrder[3]
          /\ loads[l].component = "CityscapeMap"
          /\ UNCHANGED <<bboxInput, parsed, error, bbox, viewMode, mount,
                         filterMethod, meshResolution, heightExaggeration>>
          /\ Resolve(l, "settled")
          /\ loading' = FALSE
          /\ CommitHeatmap(l, TerrainOf(loads[l].bbox, l))
    /\ UNCHANGED appFrame

\* the import of the filters rejects (the chunk could not be fetched): the
\* catch block of load l logs the error and clears loading
ImportRejected ==
    /\ \E l \in DOMAIN loads :
          /\ loads[l].pc = "import"
          /\ UNCHANGED <<bboxInput, parsed, error, bbox, viewMode, mount,
                         filterMethod, meshResolution, heightExaggeration>>
          /\ loads' = [loads EXCEPT ![l].pc = "settled"]
          /\ loading' = FALSE
          /\ Rerender
    /\ UNCHANGED appFrame

\* the page as constructed, with or without a Mapbox token in the build
InitApp ==
    /\ DecodeIdle
    /\ StitchIdle
    /\ bboxInput = <<>>
    /\ parsed = [result |-> "pending"]
    /\ error = Null
    /\ bbox = Null
    /\ viewMode = "r3f"
    /\ loading = FALSE
    /\ token \in {"", "pk.token"}
    /\ mount = 0
    /\ loads = <<>>
    /\ filterMethod = DefaultFilterMethod
    /\ meshResolution = 1
    /\ useRealScale = TRUE
    /\ heightExaggeration = 10
    /\ maxTiles = 16
    /\ zoom = 10
    /\ zoomKnown = FALSE
    /\ zoomArg = 0
    /\ tiles = <<>>
    /\ tilesCall = "idle"
    /\ tileRequests = 0
    /\ satelliteTexture = NoTexture
    /\ streetsTexture = NoTexture
    /\ heatmapTexture = NoTexture
    /\ minElevation = 0
    /\ maxElevation = 0
    /\ textureWidth = 0
    /\ textureHeight = 0
    /\ terrainImageData = Null
    /\ geometry = Null
    /\ exportFunctions = Null
    /\ heightField = <<>>
    /\ filtered = FALSE
    /\ horizontalDistanceMeters = 1000
    /\ elevationStats = [min |-> 0, max |-> 0]
    /\ baseScale = [num |-> 0, den |-> 1]
    /\ elevationMeters = <<>>
    /\ positions = <<>>
    /\ effectDeps = <<>>
    /\ gbaCall = <<>>

NextApp ==
    \/ handleGenerate
    \/ handleGenerateCityscape
    \/ onFilterMethodChange
    \/ onMeshResolutionChange
    \/ onHeightChange
    \/ SatelliteStitched
    \/ StreetsStitched
    \/ TerrainStitched
    \/ CityscapeTerrainStitched
    \/ FiltersImported
    \/ ImportRejected

SpecApp == InitApp /\ [][NextApp]_vars

(* Claims about the page and its map component *)

\* a text that writes a box the specification accepts: exactly four
\* comma-separated numerals, minLon < maxLon, minLat < maxLat, longitudes in
\* [-180, 180] and latitudes in [-90, 90]
IsValidBboxText(text) ==
    LET pieces == split(text, ",")
        v(k) == NumeralValue(pieces[k])
    IN  /\ Len(pieces) = 4
        /\ \A k \in 1..4 : IsNumeral(pieces[k])
        /\ v(1) < v(3) /\ v(2) < v(4)
        /\ v(1) >= 0 - 180 /\ v(3) <= 180
        /\ v(2) >= 0 - 90 /\ v(4) <= 90

\* a step of a Generate handler: it parsed the text of the field
Submits == parsed' # [result |-> "pending"] /\ bboxInput' # <<>>
               /\ <<parsed', bboxInput', error', bbox', viewMode'>>
                      # <<parsed, bboxInput, error, bbox, viewMode>>

\* C21: a Generate handler called with an invalid text sets the validation
\* error, leaves the stored box and the view mode as they were and starts no
\* load (no zoom is calculated, no tile enumerated or fetched); and a load
\* is only ever started for the stored box, which parseBoundingBox accepted
C21_InvalidTextRejected ==
    [][/\ (Submits /\ ~IsValidBboxText(bboxInput')) =>
              /\ error' = InvalidFormat
              /\ bbox' = bbox /\ viewMode' = viewMode
              /\ loads' = loads
       /\ Len(loads') > Len(loads) =>
              /\ bbox' # Null
              /\ loads'[Len(loads')].bbox = bbox'
              /\ \E text \in AppTexts : parseBoundingBox(text) = bbox']_vars

\* C22: whenever the displacement effect has run, the terrainWidth and
\* terrainHeight it was given are the dimensions of the raster it decoded,
\* and the height field it filtered has one height for every pixel of that
\* raster and no NaN among them
C22_HeightFieldMatchesRaster ==
    (geometry # Null /\ filtered) =>
        /\ effectDeps.terrainImageData = terrainImageData.load
        /\ effectDeps.terrainWidth = terrainImageData.width
        /\ effectDeps.terrainHeight = terrainImageData.height
        /\ DOMAIN heightField
               = Pixels(terrainImageData.width, terrainImageData.height)
        /\ \A i \in DOMAIN heightField : heightField[i] # NaNTicks

\* every load started so far has ended
NoLoadInFlight == \A l \in DOMAIN loads : loads[l].pc = "settled"

\* C23: once every load has settled, the satellite texture, the streets
\* texture, the texture size and the terrain raster that the map component
\* holds are those of the load started last, whatever the order in which
\* the stitches of overlapping loads resolved
C23_StateOfLatestLoad ==
    (loads # <<>> /\ NoLoadInFlight) =>
        LET latest == Len(loads)
            dims == CropDims(loads[latest].bbox)
        IN  /\ satelliteTexture.load = latest
            /\ streetsTexture.load = latest
            /\ textureWidth = dims.width /\ textureHeight = dims.height
            /\ terrainImageData # Null /\ terrainImageData.load = latest

\* load l has resolved its stitch of style s in this step
Resolves(l, s) ==
    /\ l \in DOMAIN loads
    /\ s \notin loads[l].resolved
    /\ s \in loads'[l].resolved

\* C24: within a load the stitches are started in the order satellite,
\* streets, terrain-rgb, each after the one before it has resolved; a
\* texture or a raster is stored only in the step in which the stitch that
\* made it resolves; and the displacement effect decodes the raster of a
\* load only after the terrain-rgb stitch of that load has resolved
C24_StitchBeforeConsumer ==
    /\ [](\A l \in DOMAIN loads :
             /\ loads[l].resolved \subseteq loads[l].started
             /\ \A k \in 2 .. Len(StitchOrder) :
                   StitchOrder[k] \in loads[l].started =>
                       StitchOrder[k - 1] \in loads[l].resolved)
    /\ [](filtered => StitchOrder[3] \in loads[effectDeps.terrainImageData].resolved)
    /\ [][/\ (satelliteTexture' # satelliteTexture
                 /\ satelliteTexture' # NoTexture) =>
                 Resolves(satelliteTexture'.load, StitchOrder[1])
          /\ (streetsTexture' # streetsTexture
                 /\ streetsTexture' # NoTexture) =>
                 Resolves(streetsTexture'.load, StitchOrder[2])
          /\ (terrainImageData' # terrainImageData
                 /\ terrainImageData' # Null) =>
                 Resolves(terrainImageData'.load, StitchOrder[3])]_vars

\* two loads overlap, the displacement has run on a raster, and the load
\* started last has stored its satellite texture while its streets stitch
\* is still awaited
C24_Witness ==
    /\ Len(loads) >= 2
    /\ filtered
    /\ satelliteTexture.load = Len(loads)
    /\ loads[Len(loads)].started = {StitchOrder[1], StitchOrder[2]}
    /\ loads[Len(loads)].resolved = {StitchOrder[1]}
    /\ \E l \in DOMAIN loads : l # Len(loads) /\ loads[l].pc # "settled"

\* TerrainMesh is rendered
MeshRendered == geometry # Null

\* C25: once the effects of a commit have run, the geometry has
\* (meshResolution + 1)^2 vertices and the elevation of every vertex is the
\* displacement computed from the current raster, texture size, filter
\* method, mesh resolution, height exaggeration and horizontal distance of
\* the stored box: no change leaves the geometry flat or stale
C25_DisplacementCurrent ==
    MeshRendered =>
        /\ geometry.segments = meshResolution
        /\ SameNumber(geometry.planeHeight, PlaneHeight(bbox))
        /\ DOMAIN positions = Vertices(meshResolution)
        /\ positions =
               Displaced(FilterAsGiven(terrainImageData, textureWidth,
                                       textureHeight, filterMethod),
                         textureWidth, textureHeight, meshResolution,
                         calculateDistanceMeters(bbox), heightExaggeration)

\* C29: the loading flag of the page is true exactly while at least one
\* load is in flight, also when a load is started while another is running
C29_LoadingMirrorsLoads ==
    loading <=> ~NoLoadInFlight

=============================================================================
